---- MODULE Spec2Model ----
(***************************************************************************)
(* A model of the SVG viewer: the Viewport (src/src/viewport.rs) and the   *)
(* application controller SvgViewerApp (src/src/app.rs) with its           *)
(* background loads.                                                       *)
(*                                                                         *)
(* Reals (the code's f32 values) are exact rationals <<n, d>> in lowest    *)
(* terms with d > 0; f32 rounding error is not modelled.                   *)
(***************************************************************************)
EXTENDS Integers, Sequences, FiniteSets, TLC

\* Option<T>: None is <<>> and Some(x) is <<x>>.

VARIABLES
    \* the fields of SvgViewerApp
    document,               \* Option<SvgDocument>
    viewport,               \* Viewport
    renderer,               \* Renderer: the uploaded texture and its size
    navigator,              \* FileNavigator
    error_message,          \* Option<String>
    render_dirty,
    last_area_size,         \* (f32, f32)
    zoom_idle_since,        \* Option<Instant>, kept as the time elapsed since
    pending_rerender,
    initial_file,           \* Option<PathBuf>
    pending_load,           \* Option<PendingLoad>: the index of its thread
    last_pixels_per_point,
    cap_initial_zoom,
    \* the rest of the process
    threads,      \* the spawned load threads, each with its result channel
    pc,           \* the place of the UI thread in SvgViewerApp::update
    has_file,     \* update's local has_file
    n_inputs,     \* number of user inputs so far
    ev,           \* history: the load event of the last step
    repaint,      \* egui: another frame is due after the current one
    \* the Viewport on its own
    calls,        \* history: the last two Viewport method calls, newest first
    n_calls       \* number of Viewport method calls made so far

appvars == <<document, renderer, navigator, error_message, render_dirty,
             last_area_size, zoom_idle_since, pending_rerender, initial_file,
             pending_load, last_pixels_per_point, cap_initial_zoom, threads,
             pc, has_file, n_inputs, ev, repaint>>

vars == <<appvars, viewport, calls, n_calls>>

-----------------------------------------------------------------------------
(* Rational arithmetic.                                                    *)

Abs(x) == IF x < 0 THEN -x ELSE x

RECURSIVE Gcd(_, _)
Gcd(a, b) == IF b = 0 THEN a ELSE Gcd(b, a % b)

Rat(n, d) ==
    LET g == Gcd(Abs(n), Abs(d))
        s == IF d < 0 THEN -1 ELSE 1
    IN  <<(s * n) \div g, (s * d) \div g>>

R(i) == <<i, 1>>
RAdd(a, b) == Rat(a[1] * b[2] + b[1] * a[2], a[2] * b[2])
RSub(a, b) == Rat(a[1] * b[2] - b[1] * a[2], a[2] * b[2])
RMul(a, b) == Rat(a[1] * b[1], a[2] * b[2])
RDiv(a, b) == Rat(a[1] * b[2], a[2] * b[1])
RLt(a, b) == a[1] * b[2] < b[1] * a[2]
RLe(a, b) == a[1] * b[2] <= b[1] * a[2]
RMin(a, b) == IF RLe(a, b) THEN a ELSE b
\* f32::clamp(lo, hi)
RClamp(x, lo, hi) == IF RLt(x, lo) THEN lo ELSE IF RLt(hi, x) THEN hi ELSE x

\* egui::Vec2 and its operators
Vec2ZERO == <<R(0), R(0)>>
VAdd(a, b) == <<RAdd(a[1], b[1]), RAdd(a[2], b[2])>>
VSub(a, b) == <<RSub(a[1], b[1]), RSub(a[2], b[2])>>
VScale(k, a) == <<RMul(k, a[1]), RMul(k, a[2])>>

-----------------------------------------------------------------------------
(* Viewport (src/src/viewport.rs).  Beside the struct's six fields a       *)
(* Viewport carries two history fields: set_by, the method that last       *)
(* assigned fit_mode, and moved, whether pan_by or zoom_by ran since.      *)

FitMode == {"Fit", "ActualSize", "Custom"}

ZOOM_MIN == <<1, 100>>
ZOOM_MAX == <<100, 1>>

ViewportDefault ==
    [zoom |-> R(1), pan |-> Vec2ZERO, rotation_deg |-> 0,
     mirror_h |-> FALSE, mirror_v |-> FALSE, fit_mode |-> "Fit",
     set_by |-> "default", moved |-> FALSE]

reset(vp) == ViewportDefault

\* (self.rotation_deg % 180.0).abs() > 45.0
Sideways(vp) == Abs(vp.rotation_deg % 180) > 45

\* The rotation bug: the document's sides are not swapped when it is shown
\* turned by 90 or 270 degrees.
fit_to_area_unrotated(vp, svg_width, svg_height, area_width, area_height) ==
    IF \/ RLe(svg_width, R(0)) \/ RLe(svg_height, R(0))
       \/ RLe(area_width, R(0)) \/ RLe(area_height, R(0))
    THEN vp
    ELSE [vp EXCEPT !.zoom = RMin(RDiv(area_width, svg_width),
                                  RDiv(area_height, svg_height)),
                    !.pan = Vec2ZERO,
                    !.fit_mode = "Fit",
                    !.set_by = "fit_to_area", !.moved = FALSE]

fit_to_area(vp, svg_width, svg_height, area_width, area_height) ==
    IF \/ RLe(svg_width, R(0)) \/ RLe(svg_height, R(0))
       \/ RLe(area_width, R(0)) \/ RLe(area_height, R(0))
    THEN vp
    ELSE LET effective_w == IF Sideways(vp) THEN svg_height ELSE svg_width
             effective_h == IF Sideways(vp) THEN svg_width ELSE svg_height
             scale_x == RDiv(area_width, effective_w)
             scale_y == RDiv(area_height, effective_h)
         IN  [vp EXCEPT !.zoom = RMin(scale_x, scale_y),
                        !.pan = Vec2ZERO,
                        !.fit_mode = "Fit",
                        !.set_by = "fit_to_area", !.moved = FALSE]

set_actual_size(vp, pixels_per_point) ==
    [vp EXCEPT !.zoom = RDiv(R(1), pixels_per_point),
               !.pan = Vec2ZERO,
               !.fit_mode = "ActualSize",
               !.set_by = "set_actual_size", !.moved = FALSE]

\* The anchor bug: the pan is scaled by the requested factor, not by the
\* ratio of the clamped zoom to the old zoom.
zoom_by_factor_pan(vp, factor, cursor_pos) ==
    [vp EXCEPT !.zoom = RClamp(RMul(vp.zoom, factor), ZOOM_MIN, ZOOM_MAX),
               !.pan = VSub(cursor_pos, VScale(factor, VSub(cursor_pos, vp.pan))),
               !.fit_mode = "Custom",
               !.set_by = "zoom_by", !.moved = TRUE]

\* The clamp bug: the product is stored unclamped.
zoom_by_unclamped(vp, factor, cursor_pos) ==
    [vp EXCEPT !.zoom = RMul(vp.zoom, factor),
               !.pan = VSub(cursor_pos, VScale(factor, VSub(cursor_pos, vp.pan))),
               !.fit_mode = "Custom",
               !.set_by = "zoom_by", !.moved = TRUE]

\* The round-trip bug: the anchor is scaled but the old pan is not.
zoom_by_pan_unscaled(vp, factor, cursor_pos) ==
    LET zoom == RClamp(RMul(vp.zoom, factor), ZOOM_MIN, ZOOM_MAX)
        scale_ratio == RDiv(zoom, vp.zoom)
    IN  [vp EXCEPT !.zoom = zoom,
                   !.pan = VAdd(VSub(cursor_pos, VScale(scale_ratio, cursor_pos)),
                                vp.pan),
                   !.fit_mode = "Custom",
                   !.set_by = "zoom_by", !.moved = TRUE]

zoom_by(vp, factor, cursor_pos) ==
    LET old_zoom == vp.zoom
        zoom == RClamp(RMul(vp.zoom, factor), ZOOM_MIN, ZOOM_MAX)
        scale_ratio == RDiv(zoom, old_zoom)
    IN  [vp EXCEPT !.zoom = zoom,
                   !.pan = VSub(cursor_pos,
                                VScale(scale_ratio, VSub(cursor_pos, vp.pan))),
                   !.fit_mode = "Custom",
                   !.set_by = "zoom_by", !.moved = TRUE]

zoom_in(vp, center) == zoom_by(vp, <<5, 4>>, center)

zoom_out(vp, center) == zoom_by(vp, <<4, 5>>, center)

\* The fit-mode bug: a pan moves the image and leaves the mode alone.
pan_by_keeps_mode(vp, delta) ==
    [vp EXCEPT !.pan = VAdd(vp.pan, delta), !.moved = TRUE]

\* The mode bug: every pan sets Custom, whatever the mode was.
pan_by_always_custom(vp, delta) ==
    [vp EXCEPT !.pan = VAdd(vp.pan, delta),
               !.fit_mode = "Custom",
               !.set_by = "pan_by",
               !.moved = TRUE]

pan_by(vp, delta) ==
    [vp EXCEPT !.pan = VAdd(vp.pan, delta),
               !.fit_mode = IF vp.fit_mode = "Fit" THEN "Custom" ELSE vp.fit_mode,
               !.set_by = IF vp.fit_mode = "Fit" THEN "pan_by" ELSE vp.set_by,
               !.moved = TRUE]

rotate_cw(vp) == [vp EXCEPT !.rotation_deg = (vp.rotation_deg + 90) % 360]

\* The wrap bug: a quarter turn back from 0 is not brought into [0, 360).
rotate_ccw_unwrapped(vp) == [vp EXCEPT !.rotation_deg = vp.rotation_deg - 90]

rotate_ccw(vp) == [vp EXCEPT !.rotation_deg = (vp.rotation_deg - 90 + 360) % 360]

toggle_mirror_h(vp) == [vp EXCEPT !.mirror_h = ~vp.mirror_h]

toggle_mirror_v(vp) == [vp EXCEPT !.mirror_v = ~vp.mirror_v]

\* tiny_skia::Transform: the point (x, y) goes to
\* (sx * x + kx * y + tx, ky * x + sy * y + ty).
TransformIdentity ==
    [sx |-> R(1), ky |-> R(0), kx |-> R(0), sy |-> R(1), tx |-> R(0), ty |-> R(0)]

FromTranslate(x, y) == [TransformIdentity EXCEPT !.tx = x, !.ty = y]

FromScale(x, y) == [TransformIdentity EXCEPT !.sx = x, !.sy = y]

\* Sine and cosine of a whole number of quarter turns
Cos(deg) ==
    IF deg % 360 = 0 THEN R(1) ELSE IF deg % 360 = 180 THEN R(-1) ELSE R(0)
Sin(deg) ==
    IF deg % 360 = 90 THEN R(1) ELSE IF deg % 360 = 270 THEN R(-1) ELSE R(0)

FromRotate(deg) ==
    [sx |-> Cos(deg), ky |-> Sin(deg),
     kx |-> RSub(R(0), Sin(deg)), sy |-> Cos(deg),
     tx |-> R(0), ty |-> R(0)]

\* The transform that applies b, then a
Concat(a, b) ==
    [sx |-> RAdd(RMul(a.sx, b.sx), RMul(a.kx, b.ky)),
     ky |-> RAdd(RMul(a.ky, b.sx), RMul(a.sy, b.ky)),
     kx |-> RAdd(RMul(a.sx, b.kx), RMul(a.kx, b.sy)),
     sy |-> RAdd(RMul(a.ky, b.kx), RMul(a.sy, b.sy)),
     tx |-> RAdd(RAdd(RMul(a.sx, b.tx), RMul(a.kx, b.ty)), a.tx),
     ty |-> RAdd(RAdd(RMul(a.ky, b.tx), RMul(a.sy, b.ty)), a.ty)]

MapPoint(ts, p) ==
    <<RAdd(RAdd(RMul(ts.sx, p[1]), RMul(ts.kx, p[2])), ts.tx),
      RAdd(RAdd(RMul(ts.ky, p[1]), RMul(ts.sy, p[2])), ts.ty)>>

\* The display bug: the viewport's zoom and pan reach the transform.
build_transform_zoomed(vp, svg_width, svg_height, render_width, render_height) ==
    LET half == <<1, 2>>
        cx == RMul(render_width, half)
        cy == RMul(render_height, half)
        scale_x == RDiv(render_width, svg_width)
        scale_y == RDiv(render_height, svg_height)
        scale == RMul(RMin(scale_x, scale_y), vp.zoom)
        \* post_translate, then the pre_ calls in order
        t1 == Concat(FromTranslate(RAdd(cx, vp.pan[1]), RAdd(cy, vp.pan[2])),
                    TransformIdentity)
        t2 == IF vp.rotation_deg # 0
              THEN Concat(t1, FromRotate(vp.rotation_deg)) ELSE t1
        t3 == IF vp.mirror_h THEN Concat(t2, FromScale(R(-1), R(1))) ELSE t2
        t4 == IF vp.mirror_v THEN Concat(t3, FromScale(R(1), R(-1))) ELSE t3
        t5 == Concat(t4, FromTranslate(
                  RMul(RMul(RSub(R(0), svg_width), half), scale),
                  RMul(RMul(RSub(R(0), svg_height), half), scale)))
    IN  Concat(t5, FromScale(scale, scale))

build_transform(vp, svg_width, svg_height, render_width, render_height) ==
    LET half == <<1, 2>>
        cx == RMul(render_width, half)
        cy == RMul(render_height, half)
        scale_x == RDiv(render_width, svg_width)
        scale_y == RDiv(render_height, svg_height)
        scale == RMin(scale_x, scale_y)
        \* post_translate, then the pre_ calls in order
        t1 == Concat(FromTranslate(cx, cy), TransformIdentity)
        t2 == IF vp.rotation_deg # 0
              THEN Concat(t1, FromRotate(vp.rotation_deg)) ELSE t1
        t3 == IF vp.mirror_h THEN Concat(t2, FromScale(R(-1), R(1))) ELSE t2
        t4 == IF vp.mirror_v THEN Concat(t3, FromScale(R(1), R(-1))) ELSE t3
        t5 == Concat(t4, FromTranslate(
                  RMul(RMul(RSub(R(0), svg_width), half), scale),
                  RMul(RMul(RSub(R(0), svg_height), half), scale)))
    IN  Concat(t5, FromScale(scale, scale))

-----------------------------------------------------------------------------
(* The file system and SvgDocument::load (src/src/svg_document.rs).        *)

\* The directory the viewer browses, in natural-sort order.
DirListing == <<"a.svg", "b.svg", "bad.svg">>
Files == {DirListing[i] : i \in 1..Len(DirListing)}

\* Intrinsic size of each file that parses; bad.svg does not parse.
SvgSize(path) == IF path = "a.svg" THEN <<R(200), R(100)>> ELSE <<R(4), R(4)>>

SvgDocument_load(path) ==
    IF path = "bad.svg"
    THEN [ok |-> FALSE, err |-> "Failed to parse SVG"]
    ELSE [ok |-> TRUE,
          doc |-> [path |-> path, width |-> SvgSize(path)[1],
                   height |-> SvgSize(path)[2]]]

-----------------------------------------------------------------------------
(* Renderer (src/src/renderer.rs).  A Pixmap is its size and what was      *)
(* drawn into it: the document and the rotation and mirror flags of the    *)
(* transform.                                                              *)

MAX_RENDER_DIM == 4096
MAX_RENDER_SCALE == 4

\* f32::round() as u32, for x >= 0
RoundU32(x) == (2 * x[1] + x[2]) \div (2 * x[2])

\* The clamp bug: the value is used as computed.
ClampInt_none(x, lo, hi) == x

ClampInt(x, lo, hi) == IF x < lo THEN lo ELSE IF x > hi THEN hi ELSE x

render_to_pixmap(doc, vp, area_width, area_height, pixels_per_point) ==
    IF RLe(doc.width, R(0)) \/ RLe(doc.height, R(0))
    THEN [ok |-> FALSE, err |-> "Failed to render SVG: SVG has zero dimensions"]
    ELSE LET effective_svg_w == IF Sideways(vp) THEN doc.height ELSE doc.width
             effective_svg_h == IF Sideways(vp) THEN doc.width ELSE doc.height
             displayed_w == RMul(effective_svg_w, vp.zoom)
             displayed_h == RMul(effective_svg_h, vp.zoom)
             capped_w == RMin(displayed_w, area_width)
             capped_h == RMin(displayed_h, area_height)
             render_w == ClampInt(RoundU32(RMul(capped_w, pixels_per_point)),
                                  1, MAX_RENDER_DIM)
             render_h == ClampInt(RoundU32(RMul(capped_h, pixels_per_point)),
                                  1, MAX_RENDER_DIM)
         IN  [ok |-> TRUE,
              pixmap |-> [width |-> render_w, height |-> render_h,
                          path |-> doc.path,
                          rotation_deg |-> vp.rotation_deg,
                          mirror_h |-> vp.mirror_h, mirror_v |-> vp.mirror_v]]

RendererNew == [texture |-> <<>>, rendered_width |-> 0, rendered_height |-> 0]

\* Renderer::upload_pixmap: the texture becomes the given pixmap.
upload_pixmap(r, pixmap) ==
    [texture |-> <<pixmap>>, rendered_width |-> pixmap.width,
     rendered_height |-> pixmap.height]

\* Renderer::render_and_upload: the result, and the renderer after it.
render_and_upload(r, doc, vp, area_width, area_height, pixels_per_point) ==
    LET p == render_to_pixmap(doc, vp, area_width, area_height, pixels_per_point)
    IN  IF p.ok
        THEN [ok |-> TRUE,
              renderer |-> [texture |-> <<p.pixmap>>,
                            rendered_width |-> p.pixmap.width,
                            rendered_height |-> p.pixmap.height]]
        ELSE [ok |-> FALSE, err |-> p.err, renderer |-> r]

\* Renderer::render_for_export: the pixmap, with the transform the document
\* was drawn under.  Pixmap::new cannot fail for sides in 1..MAX_RENDER_DIM.
render_for_export(doc, width, height, vp) ==
    LET w == ClampInt(width, 1, MAX_RENDER_DIM)
        h == ClampInt(height, 1, MAX_RENDER_DIM)
    IN  [ok |-> TRUE,
         pixmap |-> [width |-> w, height |-> h, path |-> doc.path,
                     transform |-> build_transform(vp, doc.width, doc.height,
                                                   R(w), R(h))]]

-----------------------------------------------------------------------------
(* Export post-processing (src/src/export.rs).  Pixel data is a sequence   *)
(* of bytes, four to a premultiplied RGBA pixel.  An f32 is the pair of a   *)
(* 24-bit mantissa m and an exponent e, standing for m * 2^e.              *)

\* The f32 nearest to n / d, ties to even, for integers 0 < n, d < 2^24
RECURSIVE F32Quot(_, _, _, _)
F32Quot(q, r, d, e) ==
    IF q >= 8388608
    THEN [m |-> IF 2 * r > d \/ (2 * r = d /\ q % 2 = 1) THEN q + 1 ELSE q,
          e |-> e]
    ELSE F32Quot(2 * q + ((2 * r) \div d), (2 * r) % d, d, e - 1)

F32Div(n, d) == F32Quot(n \div d, n % d, d, 0)

\* f32::round() (half away from zero) of x.m * 2^exp, then .min(255.0) as u8
RoundMin255(m, exp) ==
    IF exp >= 0 THEN 255
    ELSE LET unit == 2 ^ (-exp)
             whole == m \div unit
             up == IF 2 * (m % unit) >= unit THEN whole + 1 ELSE whole
         IN  IF up > 255 THEN 255 ELSE up

\* (chunk[i] as f32 / a).round().min(255.0) as u8, for a = alpha as f32 / 255.0
UnPremultiplyChannel(c, alpha) ==
    IF c = 0 THEN 0
    ELSE LET a == F32Div(alpha, 255)
             v == F32Div(c, a.m)
         IN  RoundMin255(v.m, v.e - a.e)

\* The alpha bug: the output pixel is made opaque.
UnPremultiplyPixel_opaque(chunk) ==
    IF chunk[4] > 0
    THEN <<UnPremultiplyChannel(chunk[1], chunk[4]),
           UnPremultiplyChannel(chunk[2], chunk[4]),
           UnPremultiplyChannel(chunk[3], chunk[4]), 255>>
    ELSE <<0, 0, 0, 0>>

UnPremultiplyPixel(chunk) ==
    IF chunk[4] > 0
    THEN <<UnPremultiplyChannel(chunk[1], chunk[4]),
           UnPremultiplyChannel(chunk[2], chunk[4]),
           UnPremultiplyChannel(chunk[3], chunk[4]), chunk[4]>>
    ELSE <<0, 0, 0, 0>>

\* chunks_exact(4): whole pixels only
RECURSIVE un_premultiply_alpha(_)
un_premultiply_alpha(data) ==
    IF Len(data) < 4 THEN <<>>
    ELSE UnPremultiplyPixel(SubSeq(data, 1, 4))
            \o un_premultiply_alpha(SubSeq(data, 5, Len(data)))

\* The background bug: the background is added at full strength.
CompositeChannel_full(c, b, alpha) == IF c + b > 255 THEN 255 ELSE c + b

\* (chunk[i] as f32 + bg[i] as f32 * (1.0 - a)).round().min(255.0) as u8.
\* bg * (255 - alpha) / 255 is never within 1/510 of a half, and the f32
\* result is within 2^-15 of it, so both round to the same byte.
CompositeChannel(c, b, alpha) ==
    LET up == c + (2 * b * (255 - alpha) + 255) \div 510
    IN  IF up > 255 THEN 255 ELSE up

CompositePixel(chunk, bg) ==
    <<CompositeChannel(chunk[1], bg[1], chunk[4]),
      CompositeChannel(chunk[2], bg[2], chunk[4]),
      CompositeChannel(chunk[3], bg[3], chunk[4])>>

RECURSIVE composite_over_background(_, _)
composite_over_background(data, bg) ==
    IF Len(data) < 4 THEN <<>>
    ELSE CompositePixel(SubSeq(data, 1, 4), bg)
            \o composite_over_background(SubSeq(data, 5, Len(data)), bg)

ExportFormat == {"Png", "Jpeg", "Bmp", "Tiff", "WebP"}

supports_alpha(format) == format \in {"Png", "Tiff", "WebP"}

\* The match of save_pixmap decided by the format's capability alone.
SavesRgba_capable(settings) == supports_alpha(settings.format)

\* The arms of save_pixmap's match that build an RgbaImage
SavesRgba(settings) ==
    \/ settings.format = "Png" /\ settings.include_alpha
    \/ settings.format = "Tiff" /\ settings.include_alpha
    \/ settings.format = "WebP" /\ settings.include_alpha

\* save_pixmap: the image handed to the encoder.  The encoder and the file
\* system are outside the model and do not fail.
save_pixmap(pixmap, settings) ==
    IF SavesRgba(settings)
    THEN [ok |-> TRUE,
          image |-> [kind |-> "RgbaImage", width |-> pixmap.width,
                     height |-> pixmap.height,
                     raw |-> un_premultiply_alpha(pixmap.data)],
          encoder |-> "save"]
    ELSE [ok |-> TRUE,
          image |-> [kind |-> "RgbImage", width |-> pixmap.width,
                     height |-> pixmap.height,
                     raw |-> composite_over_background(
                                 pixmap.data, settings.background_color)],
          encoder |-> IF settings.format = "Jpeg" THEN "JpegEncoder" ELSE "save"]

-----------------------------------------------------------------------------
(* FileNavigator (src/src/file_navigator.rs).                              *)

\* scanned_for is history: the path the last directory scan was run for, as
\* an Option (no scan yet: <<>>).
FileNavigatorNew == [files |-> <<>>, current_index |-> 0, scanned_for |-> <<>>]

\* Vec::iter().position(), 0-based, as an Option
Position(files, path) ==
    LET hits == {i \in 1..Len(files) : files[i] = path}
    IN  IF hits = {} THEN <<>>
        ELSE <<(CHOOSE i \in hits : \A j \in hits : i <= j) - 1>>

\* The navigator a scan leaves when the directory lists svg_files
ScanOf(svg_files, file_path) ==
    LET pos == Position(svg_files, file_path)
    IN  [files |-> svg_files,
         current_index |-> IF pos = <<>> THEN 0 ELSE pos[1],
         scanned_for |-> <<file_path>>]

\* Paths for which Path::parent() is None: the root and the empty path
Parentless == {"/", ""}

\* A scan that keeps the index it had
scan_directory_listing_keep_index(nav, svg_files, file_path) ==
    IF file_path \in Parentless THEN nav
    ELSE [ScanOf(svg_files, file_path) EXCEPT
              !.current_index = nav.current_index]

\* scan_directory when read_dir and the filter yield svg_files (sorted): a
\* path without a parent returns before anything is changed
scan_directory_listing(nav, svg_files, file_path) ==
    IF file_path \in Parentless THEN nav
    ELSE ScanOf(svg_files, file_path)

scan_directory(nav, file_path) ==
    scan_directory_listing(nav, DirListing, file_path)

\* FileNavigator::next and prev: the navigator after the call and the path
\* returned, as an Option.
next(nav) ==
    IF Len(nav.files) = 0
    THEN [nav |-> nav, path |-> <<>>]
    ELSE LET i == (nav.current_index + 1) % Len(nav.files)
         IN  [nav |-> [nav EXCEPT !.current_index = i],
              path |-> <<nav.files[i + 1]>>]

\* The wrap bug: prev stops at the first file.
prev_saturating(nav) ==
    IF Len(nav.files) = 0
    THEN [nav |-> nav, path |-> <<>>]
    ELSE LET i == IF nav.current_index = 0 THEN 0 ELSE nav.current_index - 1
         IN  [nav |-> [nav EXCEPT !.current_index = i],
              path |-> <<nav.files[i + 1]>>]

prev(nav) ==
    IF Len(nav.files) = 0
    THEN [nav |-> nav, path |-> <<>>]
    ELSE LET i == IF nav.current_index = 0 THEN Len(nav.files) - 1
                  ELSE nav.current_index - 1
         IN  [nav |-> [nav EXCEPT !.current_index = i],
              path |-> <<nav.files[i + 1]>>]

-----------------------------------------------------------------------------
(* SvgViewerApp (src/src/app.rs).  The methods are operators on a record   *)
(* s holding the fields of self, the spawned threads and the event of the  *)
(* step.  An error message is a pair <<prefix, detail>>.                   *)

NoEvent == [kind |-> "none"]

Self ==
    [document |-> document, viewport |-> viewport, renderer |-> renderer,
     navigator |-> navigator, error_message |-> error_message,
     render_dirty |-> render_dirty, last_area_size |-> last_area_size,
     zoom_idle_since |-> zoom_idle_since, pending_rerender |-> pending_rerender,
     initial_file |-> initial_file, pending_load |-> pending_load,
     last_pixels_per_point |-> last_pixels_per_point,
     cap_initial_zoom |-> cap_initial_zoom, threads |-> threads,
     ev |-> NoEvent]

Commit(s) ==
    /\ document' = s.document
    /\ viewport' = s.viewport
    /\ renderer' = s.renderer
    /\ navigator' = s.navigator
    /\ error_message' = s.error_message
    /\ render_dirty' = s.render_dirty
    /\ last_area_size' = s.last_area_size
    /\ zoom_idle_since' = s.zoom_idle_since
    /\ pending_rerender' = s.pending_rerender
    /\ initial_file' = s.initial_file
    /\ pending_load' = s.pending_load
    /\ last_pixels_per_point' = s.last_pixels_per_point
    /\ cap_initial_zoom' = s.cap_initial_zoom
    /\ threads' = s.threads
    /\ ev' = s.ev

\* The closure run by the spawned thread: load, fit, render.
LoadedFile(path, area_w, area_h, ppp) ==
    LET l == SvgDocument_load(path)
    IN  IF ~l.ok THEN [ok |-> FALSE, msg |-> l.err]
        ELSE
        LET doc == l.doc
            fitted == fit_to_area(ViewportDefault, doc.width, doc.height,
                                  area_w, area_h)
            vp == IF RLt(R(0), area_w) /\ RLt(R(0), area_h)
                  THEN [fitted EXCEPT
                            !.zoom = RMin(fitted.zoom, R(MAX_RENDER_SCALE))]
                  ELSE ViewportDefault
            p == render_to_pixmap(doc, vp, area_w, area_h, ppp)
        IN  IF ~p.ok THEN [ok |-> FALSE, msg |-> p.err]
            ELSE [ok |-> TRUE, doc |-> doc, pixmap |-> p.pixmap,
                  viewport |-> vp,
                  logical_display_w |-> RMin(RMul(doc.width, vp.zoom), area_w),
                  logical_display_h |-> RMin(RMul(doc.height, vp.zoom), area_h)]

\* Dropping an Option<PendingLoad> drops its Receiver, and with it a result
\* that was sent and not received.
DropReceiver(ts, pending) ==
    IF pending = <<>> THEN ts
    ELSE [ts EXCEPT ![pending[1]].rx_alive = FALSE, ![pending[1]].slot = <<>>]

NewThread(s, path) ==
    [path |-> path, area_w |-> s.last_area_size[1],
     area_h |-> s.last_area_size[2], ppp |-> s.last_pixels_per_point,
     status |-> "running", rx_alive |-> TRUE, slot |-> <<>>]

\* The single-slot bug: a load still in flight is kept and the new thread's
\* receiver is dropped at once.
start_background_load_keep_first(s, path) ==
    IF s.pending_load = <<>>
    THEN [s EXCEPT !.threads = Append(s.threads, NewThread(s, path)),
                   !.pending_load = <<Len(s.threads) + 1>>,
                   !.ev = [kind |-> "bg_started", thread |-> Len(s.threads) + 1]]
    ELSE [s EXCEPT !.threads = Append(s.threads,
                                 [NewThread(s, path) EXCEPT !.rx_alive = FALSE]),
                   !.ev = [kind |-> "bg_started", thread |-> Len(s.threads) + 1]]

\* The leak: the receiver of the load that is replaced is never dropped.
start_background_load_leak(s, path) ==
    [s EXCEPT !.threads = Append(s.threads, NewThread(s, path)),
              !.pending_load = <<Len(s.threads) + 1>>,
              !.ev = [kind |-> "bg_started", thread |-> Len(s.threads) + 1]]

start_background_load(s, path) ==
    [s EXCEPT !.threads = Append(DropReceiver(s.threads, s.pending_load),
                                 NewThread(s, path)),
              !.pending_load = <<Len(s.threads) + 1>>,
              !.ev = [kind |-> "bg_started", thread |-> Len(s.threads) + 1]]

\* The reset bug: the viewport is reset before the file is known to load.
load_file_reset_first(s, path) ==
    LET s1 == [s EXCEPT !.error_message = <<>>,
                        !.navigator = scan_directory(s.navigator, path),
                        !.viewport = reset(s.viewport)]
        l == SvgDocument_load(path)
    IN  IF RLt(R(0), s1.last_pixels_per_point) /\ RLt(R(0), s1.last_area_size[1])
        THEN start_background_load(s1, path)
        ELSE IF l.ok
             THEN [s1 EXCEPT !.document = <<l.doc>>,
                             !.render_dirty = TRUE,
                             !.cap_initial_zoom = TRUE,
                             !.ev = [kind |-> "sync_ok", doc |-> l.doc]]
             ELSE [s1 EXCEPT !.error_message = <<<<"Error: ", l.err>>>>,
                             !.ev = [kind |-> "sync_err", path |-> path]]

load_file(s, path) ==
    LET s1 == [s EXCEPT !.error_message = <<>>,
                        !.navigator = scan_directory(s.navigator, path)]
        l == SvgDocument_load(path)
    IN  IF RLt(R(0), s1.last_pixels_per_point) /\ RLt(R(0), s1.last_area_size[1])
        THEN start_background_load(s1, path)
        ELSE IF l.ok
             THEN [s1 EXCEPT !.viewport = reset(s1.viewport),
                             !.document = <<l.doc>>,
                             !.render_dirty = TRUE,
                             !.cap_initial_zoom = TRUE,
                             !.ev = [kind |-> "sync_ok", doc |-> l.doc]]
             ELSE [s1 EXCEPT !.error_message = <<<<"Error: ", l.err>>>>,
                             !.ev = [kind |-> "sync_err", path |-> path]]

\* rfd::FileDialog::pick_file returned `picked`.
open_file_dialog(s, picked) ==
    IF picked # <<>> THEN load_file(s, picked[1]) ELSE s

\* A navigation load that scanned the directory again, as load_file does:
\* not what the code does.
load_file_keep_navigator_rescan(s, path) ==
    start_background_load(
        [s EXCEPT !.error_message = <<>>,
                  !.navigator = scan_directory(s.navigator, path)], path)

load_file_keep_navigator(s, path) ==
    start_background_load([s EXCEPT !.error_message = <<>>], path)

navigate_prev(s) ==
    LET r == prev(s.navigator)
    IN  IF r.path # <<>>
        THEN load_file_keep_navigator([s EXCEPT !.navigator = r.nav], r.path[1])
        ELSE s

navigate_next(s) ==
    LET r == next(s.navigator)
    IN  IF r.path # <<>>
        THEN load_file_keep_navigator([s EXCEPT !.navigator = r.nav], r.path[1])
        ELSE s

\* mpsc::Receiver::try_recv on the channel of thread t
try_recv(t) ==
    IF t.slot # <<>> THEN [kind |-> "Ok", value |-> t.slot[1]]
    ELSE IF t.status = "running" THEN [kind |-> "Empty"]
    ELSE [kind |-> "Disconnected"]

\* The retry bug: a disconnected channel is treated like an empty one.
poll_pending_load_retry(s) ==
    IF s.pending_load = <<>> THEN s
    ELSE
    LET i == s.pending_load[1]
        got == try_recv(s.threads[i])
        taken == [s EXCEPT !.pending_load = <<>>,
                           !.threads = DropReceiver(s.threads, s.pending_load),
                           !.threads[i].slot = <<>>]
    IN  IF got.kind = "Ok" /\ got.value.ok
        THEN [taken EXCEPT
                  !.renderer = upload_pixmap(s.renderer, got.value.pixmap),
                  !.viewport = got.value.viewport,
                  !.document = <<got.value.doc>>,
                  !.render_dirty = FALSE,
                  !.pending_rerender = FALSE,
                  !.ev = [kind |-> "bg_ok", thread |-> i, result |-> got.value]]
        ELSE IF got.kind = "Ok"
        THEN [taken EXCEPT
                  !.error_message = <<<<"Error: ", got.value.msg>>>>,
                  !.ev = [kind |-> "bg_err", thread |-> i]]
        ELSE [s EXCEPT !.ev = [kind |-> IF got.kind = "Empty" THEN "bg_empty"
                                        ELSE "bg_disconnected",
                               thread |-> i]]

\* The torn swap: the document and the pixels are taken from the result and
\* the viewport is left as it was.
poll_pending_load_keep_viewport(s) ==
    IF s.pending_load = <<>> THEN s
    ELSE
    LET i == s.pending_load[1]
        got == try_recv(s.threads[i])
        taken == [s EXCEPT !.pending_load = <<>>,
                           !.threads = DropReceiver(s.threads, s.pending_load),
                           !.threads[i].slot = <<>>]
    IN  IF got.kind = "Ok" /\ got.value.ok
        THEN [taken EXCEPT
                  !.renderer = upload_pixmap(s.renderer, got.value.pixmap),
                  !.document = <<got.value.doc>>,
                  !.render_dirty = FALSE,
                  !.pending_rerender = FALSE,
                  !.ev = [kind |-> "bg_ok", thread |-> i, result |-> got.value]]
        ELSE IF got.kind = "Ok"
        THEN [taken EXCEPT
                  !.error_message = <<<<"Error: ", got.value.msg>>>>,
                  !.ev = [kind |-> "bg_err", thread |-> i]]
        ELSE IF got.kind = "Empty"
        THEN [s EXCEPT !.ev = [kind |-> "bg_empty", thread |-> i]]
        ELSE [taken EXCEPT
                  !.error_message = <<<<"Loading failed unexpectedly", "">>>>,
                  !.ev = [kind |-> "bg_disconnected", thread |-> i]]

poll_pending_load(s) ==
    IF s.pending_load = <<>> THEN s
    ELSE
    LET i == s.pending_load[1]
        got == try_recv(s.threads[i])
        \* self.pending_load.take(), and the receiver dropped at the end
        taken == [s EXCEPT !.pending_load = <<>>,
                           !.threads = DropReceiver(s.threads, s.pending_load),
                           !.threads[i].slot = <<>>]
    IN  IF got.kind = "Ok" /\ got.value.ok
        THEN [taken EXCEPT
                  !.renderer = upload_pixmap(s.renderer, got.value.pixmap),
                  !.viewport = got.value.viewport,
                  !.document = <<got.value.doc>>,
                  !.render_dirty = FALSE,
                  !.pending_rerender = FALSE,
                  !.ev = [kind |-> "bg_ok", thread |-> i, result |-> got.value]]
        ELSE IF got.kind = "Ok"
        THEN [taken EXCEPT
                  !.error_message = <<<<"Error: ", got.value.msg>>>>,
                  !.ev = [kind |-> "bg_err", thread |-> i]]
        ELSE IF got.kind = "Empty"
        THEN \* still loading: put it back and keep polling
             [s EXCEPT !.ev = [kind |-> "bg_empty", thread |-> i]]
        ELSE [taken EXCEPT
                  !.error_message = <<<<"Loading failed unexpectedly", "">>>>,
                  !.ev = [kind |-> "bg_disconnected", thread |-> i]]

DEBOUNCE_MS == 150

schedule_rerender(s) ==
    [s EXCEPT !.zoom_idle_since = <<0>>, !.pending_rerender = TRUE]

\* The debounce bug: the pending re-render is released without waiting.
check_deferred_rerender_eager(s) ==
    IF s.pending_rerender /\ s.zoom_idle_since # <<>>
    THEN [s EXCEPT !.render_dirty = TRUE,
                   !.pending_rerender = FALSE,
                   !.zoom_idle_since = <<>>]
    ELSE s

check_deferred_rerender(s) ==
    IF /\ s.pending_rerender
       /\ s.zoom_idle_since # <<>>
       /\ s.zoom_idle_since[1] >= DEBOUNCE_MS
    THEN [s EXCEPT !.render_dirty = TRUE,
                   !.pending_rerender = FALSE,
                   !.zoom_idle_since = <<>>]
    ELSE s

\* SvgViewerApp::copy_to_clipboard; `fails` is whether
\* clipboard::copy_to_clipboard returns an error.  The status message of a
\* successful copy is not kept.
copy_to_clipboard(s, fails) ==
    IF s.document # <<>> /\ fails
    THEN [s EXCEPT !.error_message = <<<<"Clipboard error: ", "clipboard">>>>,
                   !.ev = [kind |-> "clipboard_err"]]
    ELSE s

\* ToolbarAction::default(), with the file the dialog returns when open_file
\* is set and the outcome of the copy when copy_clipboard is set.  The
\* export, toggle_bg and toggle_theme flags touch none of the fields kept
\* here and are left out.
ActionFlags == {"open_file", "prev_file", "next_file", "fit_to_window",
                "actual_size", "zoom_in", "zoom_out", "rotate_cw", "rotate_ccw",
                "mirror_h", "mirror_v", "copy_clipboard", "reset_view"}

ToolbarActionDefault ==
    [f \in ActionFlags |-> FALSE] @@ [picked |-> <<>>, clipboard_fails |-> FALSE]

\* The flags of handle_action, applied in the order of the code.
ActOpenFile(s, a) ==
    IF a.open_file THEN open_file_dialog(s, a.picked) ELSE s

ActPrevFile(s, a) == IF a.prev_file THEN navigate_prev(s) ELSE s

ActNextFile(s, a) == IF a.next_file THEN navigate_next(s) ELSE s

ActFitToWindow(s, a) ==
    IF a.fit_to_window /\ s.document # <<>>
    THEN [s EXCEPT !.viewport = fit_to_area(s.viewport, s.document[1].width,
                                            s.document[1].height,
                                            s.last_area_size[1],
                                            s.last_area_size[2]),
                   !.render_dirty = TRUE]
    ELSE s

ActActualSize(s, a) ==
    IF a.actual_size
    THEN [s EXCEPT !.viewport = set_actual_size(s.viewport, R(1)),
                   !.render_dirty = TRUE]
    ELSE s

ActZoomIn(s, a, center) ==
    IF a.zoom_in
    THEN schedule_rerender([s EXCEPT !.viewport = zoom_in(s.viewport, center)])
    ELSE s

ActZoomOut(s, a, center) ==
    IF a.zoom_out
    THEN schedule_rerender([s EXCEPT !.viewport = zoom_out(s.viewport, center)])
    ELSE s

ActRotateMirror(s, a) ==
    LET s1 == IF a.rotate_cw
              THEN [s EXCEPT !.viewport = rotate_cw(s.viewport),
                             !.render_dirty = TRUE]
              ELSE s
        s2 == IF a.rotate_ccw
              THEN [s1 EXCEPT !.viewport = rotate_ccw(s1.viewport),
                              !.render_dirty = TRUE]
              ELSE s1
        s3 == IF a.mirror_h
              THEN [s2 EXCEPT !.viewport = toggle_mirror_h(s2.viewport),
                              !.render_dirty = TRUE]
              ELSE s2
    IN  IF a.mirror_v
        THEN [s3 EXCEPT !.viewport = toggle_mirror_v(s3.viewport),
                        !.render_dirty = TRUE]
        ELSE s3

ActCopyClipboard(s, a) ==
    IF a.copy_clipboard THEN copy_to_clipboard(s, a.clipboard_fails) ELSE s

ActResetView(s, a) ==
    IF a.reset_view
    THEN LET vp == reset(s.viewport)
         IN  [s EXCEPT !.viewport =
                           IF s.document # <<>>
                           THEN fit_to_area(vp, s.document[1].width,
                                            s.document[1].height,
                                            s.last_area_size[1],
                                            s.last_area_size[2])
                           ELSE vp,
                       !.cap_initial_zoom = TRUE,
                       !.render_dirty = TRUE]
    ELSE s

handle_action(s, action, center) ==
    ActResetView(
      ActCopyClipboard(
        ActRotateMirror(
            ActZoomOut(
                ActZoomIn(
                    ActActualSize(
                        ActFitToWindow(
                            ActNextFile(
                                ActPrevFile(ActOpenFile(s, action), action),
                                action),
                            action),
                        action),
                    action, center),
                action, center),
            action),
        action),
      action)

\* update, lines 338-360: the pixel ratio, the initial file, the poll.
\* `gap` is the time since the last frame.
UpdateStart(s, ppp, gap) ==
    LET s0 == [s EXCEPT !.last_pixels_per_point = ppp,
                        !.zoom_idle_since =
                            IF s.zoom_idle_since = <<>> THEN <<>>
                            ELSE <<IF s.zoom_idle_since[1] + gap > DEBOUNCE_MS
                                   THEN DEBOUNCE_MS
                                   ELSE s.zoom_idle_since[1] + gap>>]
        s1 == IF s0.initial_file # <<>>
              THEN load_file([s0 EXCEPT !.initial_file = <<>>], s0.initial_file[1])
              ELSE s0
    IN  poll_pending_load(s1)

\* update, lines 363-372: the first dropped file is loaded.
UpdateDropped(s, dropped) ==
    IF dropped # <<>> THEN load_file(s, dropped[1]) ELSE s
\* A render pass that fits whatever the fit-mode is
CanvasRender_refit_always(s, area) ==
    LET doc == s.document[1]
        s1 == [s EXCEPT !.last_area_size = area]
        fitted == fit_to_area(s1.viewport, doc.width, doc.height, area[1], area[2])
        s2 == IF s1.render_dirty THEN [s1 EXCEPT !.viewport = fitted] ELSE s1
        r == render_and_upload(s2.renderer, doc, s2.viewport, area[1], area[2],
                               s2.last_pixels_per_point)
    IN  IF s2.render_dirty
        THEN [s2 EXCEPT !.renderer = r.renderer, !.render_dirty = FALSE]
        ELSE s2

\* update, lines 416-452: the central panel up to the render.
CanvasRender(s, area) ==
    LET doc == s.document[1]
        s1 == [s EXCEPT !.last_area_size = area]
        fitted == fit_to_area(s1.viewport, doc.width, doc.height, area[1], area[2])
        s2 == IF s1.render_dirty /\ s1.viewport.fit_mode = "Fit"
              THEN IF s1.cap_initial_zoom
                   THEN [s1 EXCEPT
                            !.viewport =
                                [fitted EXCEPT
                                    !.zoom = RMin(fitted.zoom, R(MAX_RENDER_SCALE))],
                            !.cap_initial_zoom = FALSE]
                   ELSE [s1 EXCEPT !.viewport = fitted]
              ELSE s1
        r == render_and_upload(s2.renderer, doc, s2.viewport, area[1], area[2],
                               s2.last_pixels_per_point)
    IN  IF s2.render_dirty
        THEN [s2 EXCEPT !.renderer = r.renderer,
                        !.error_message =
                            IF r.ok THEN s2.error_message
                            ELSE <<<<"Render error: ", r.err>>>>,
                        !.render_dirty = FALSE]
        ELSE s2

\* The pan-debounce variant: a drag restarts the idle timer as a zoom does.
CanvasInput_pan_schedules(s, in) ==
    LET s1 == IF in.drag # <<>>
              THEN schedule_rerender(
                       [s EXCEPT !.viewport = pan_by(s.viewport, in.drag[1])])
              ELSE s
        s2 == IF in.zoom_delta # R(1) /\ in.hovered
              THEN schedule_rerender(
                       [s1 EXCEPT !.viewport =
                            zoom_by(s1.viewport, in.zoom_delta, in.cursor)])
              ELSE s1
    IN  IF in.zoom_delta = R(1) /\ in.scroll # 0 /\ in.hovered
        THEN schedule_rerender(
                 [s2 EXCEPT !.viewport =
                      zoom_by(s2.viewport,
                              IF in.scroll > 0 THEN <<11, 10>> ELSE <<9, 10>>,
                              in.cursor)])
        ELSE s2

\* update, lines 480-508: drag to pan, pinch and scroll to zoom.  `in` is
\* the pointer input of the frame: drag (Option<Vec2>), zoom_delta, the sign
\* of smooth_scroll_delta.y, hovered and the cursor relative to the centre.
CanvasInput(s, in) ==
    LET s1 == IF in.drag # <<>>
              THEN [s EXCEPT !.viewport = pan_by(s.viewport, in.drag[1])]
              ELSE s
        s2 == IF in.zoom_delta # R(1) /\ in.hovered
              THEN schedule_rerender(
                       [s1 EXCEPT !.viewport =
                            zoom_by(s1.viewport, in.zoom_delta, in.cursor)])
              ELSE s1
    IN  IF in.zoom_delta = R(1) /\ in.scroll # 0 /\ in.hovered
        THEN schedule_rerender(
                 [s2 EXCEPT !.viewport =
                      zoom_by(s2.viewport,
                              IF in.scroll > 0 THEN <<11, 10>> ELSE <<9, 10>>,
                              in.cursor)])
        ELSE s2

\* update, lines 416-515: the central panel, then the deferred re-render.
UpdateCanvas(s, area, in) ==
    check_deferred_rerender(
        IF s.document = <<>> THEN s
        ELSE CanvasInput(CanvasRender(s, area), in))

\* SvgViewerApp::new(file_path), before the first frame
AppNew(file_path) ==
    /\ document = <<>>
    /\ viewport = ViewportDefault
    /\ renderer = RendererNew
    /\ navigator = FileNavigatorNew
    /\ error_message = <<>>
    /\ render_dirty = TRUE
    /\ last_area_size = <<R(0), R(0)>>
    /\ zoom_idle_since = <<>>
    /\ pending_rerender = FALSE
    /\ initial_file = file_path
    /\ pending_load = <<>>
    /\ last_pixels_per_point = R(0)
    /\ cap_initial_zoom = TRUE
    /\ threads = <<>>
    /\ pc = "start"
    /\ has_file = FALSE
    /\ n_inputs = 0
    /\ repaint = TRUE
    /\ ev = NoEvent

-----------------------------------------------------------------------------
(* The Viewport on its own: any method, any argument of the sets below,    *)
(* in any order, from a fresh Viewport.                                    *)

MaxCalls == 3

Factors == {<<1, 1000>>, <<1, 2>>, <<4, 5>>, <<5, 4>>, <<2, 1>>, <<1000, 1>>}
Anchors == {Vec2ZERO, <<R(30), R(-20)>>}
Deltas == {<<R(10), R(5)>>, <<R(-4), R(0)>>}
DocSizes == {<<R(200), R(100)>>, <<R(4), R(4)>>, <<R(0), R(100)>>}
AreaSizes == {<<R(400), R(400)>>, <<R(100), R(200)>>, <<R(1000), R(700)>>,
              <<R(0), R(300)>>}
PixelsPerPoint == {R(1), R(2)}

NoCall == [op |-> "none"]

Called(c, vp) ==
    /\ n_calls < MaxCalls
    /\ n_calls' = n_calls + 1
    /\ viewport' = vp
    /\ calls' = <<c, calls[1]>>
    /\ UNCHANGED appvars

VpReset ==
    Called([op |-> "reset", before |-> viewport], reset(viewport))

VpFitToArea ==
    \E d \in DocSizes, a \in AreaSizes :
        Called([op |-> "fit_to_area", before |-> viewport, doc |-> d, area |-> a],
               fit_to_area(viewport, d[1], d[2], a[1], a[2]))

VpSetActualSize ==
    \E p \in PixelsPerPoint :
        Called([op |-> "set_actual_size", before |-> viewport, ppp |-> p],
               set_actual_size(viewport, p))

VpZoomBy ==
    \E f \in Factors, c \in Anchors :
        Called([op |-> "zoom_by", before |-> viewport, factor |-> f, anchor |-> c],
               zoom_by(viewport, f, c))

VpPanBy ==
    \E d \in Deltas :
        Called([op |-> "pan_by", before |-> viewport, delta |-> d],
               pan_by(viewport, d))

VpRotateCw == Called([op |-> "rotate_cw", before |-> viewport], rotate_cw(viewport))

VpRotateCcw == Called([op |-> "rotate_ccw", before |-> viewport], rotate_ccw(viewport))

VpToggleMirrorH ==
    Called([op |-> "toggle_mirror_h", before |-> viewport], toggle_mirror_h(viewport))

VpToggleMirrorV ==
    Called([op |-> "toggle_mirror_v", before |-> viewport], toggle_mirror_v(viewport))

VpInit ==
    /\ AppNew(<<>>)
    /\ calls = <<NoCall, NoCall>>
    /\ n_calls = 0

VpNext ==
    \/ VpReset
    \/ VpFitToArea
    \/ VpSetActualSize
    \/ VpZoomBy
    \/ VpPanBy
    \/ VpRotateCw
    \/ VpRotateCcw
    \/ VpToggleMirrorH
    \/ VpToggleMirrorV

SpecViewport == VpInit /\ [][VpNext]_vars

-----------------------------------------------------------------------------
(* Claims about Viewport::zoom_by and Viewport::pan_by, under SpecViewport. *)

LastCall == calls[1]
PrevCall == calls[2]

\* old_zoom * factor of a recorded zoom_by call, before the clamp
Product(c) == RMul(c.before.zoom, c.factor)
Clamped(c) == RLt(Product(c), ZOOM_MIN) \/ RLt(ZOOM_MAX, Product(c))

\* (anchor - pan) / zoom: the document-space offset of the anchor
AnchorOffset(vp, anchor) == VScale(RDiv(R(1), vp.zoom), VSub(anchor, vp.pan))

\* C1: zoom_by(factor, anchor) keeps the anchor fixed.  After every zoom_by
\* call the new pan is anchor - (new_zoom/old_zoom) * (anchor - old pan), and
\* (anchor - pan)/zoom is what it was before the call, clamped or not.
C1_AnchorFixed ==
    LastCall.op = "zoom_by" =>
        LET b == LastCall.before
            c == LastCall.anchor
        IN  /\ RLt(R(0), b.zoom)
            /\ viewport.pan =
                   VSub(c, VScale(RDiv(viewport.zoom, b.zoom), VSub(c, b.pan)))
            /\ AnchorOffset(viewport, c) = AnchorOffset(b, c)

\* A clamped zoom_by about an anchor that is neither the origin nor the pan.
C1_Witness ==
    /\ LastCall.op = "zoom_by"
    /\ Clamped(LastCall)
    /\ LastCall.anchor # Vec2ZERO
    /\ LastCall.before.pan # LastCall.anchor
    /\ LastCall.before.pan # Vec2ZERO
    /\ viewport.zoom # LastCall.before.zoom

\* zoom_by(f, p) directly followed by zoom_by(1/f, p)
RoundTrip ==
    /\ LastCall.op = "zoom_by"
    /\ PrevCall.op = "zoom_by"
    /\ LastCall.anchor = PrevCall.anchor
    /\ LastCall.factor = RDiv(R(1), PrevCall.factor)

Restored ==
    /\ viewport.zoom = PrevCall.before.zoom
    /\ viewport.pan = PrevCall.before.pan

\* C2 as stated: zoom_by(f, p) then zoom_by(1/f, p) restores zoom and pan
\* from any viewport state and for every positive f.
C2_Original == RoundTrip => Restored

\* C2 amended: zoom_by(f, p) then zoom_by(1/f, p) restores zoom and pan when
\* neither call was clamped.
C2_RoundTrip == (RoundTrip /\ ~Clamped(PrevCall) /\ ~Clamped(LastCall)) => Restored

\* An unclamped round trip that moved the pan on the way.
C2_Witness ==
    /\ RoundTrip
    /\ ~Clamped(PrevCall)
    /\ ~Clamped(LastCall)
    /\ LastCall.before.pan # viewport.pan
    /\ viewport.pan # Vec2ZERO
    /\ LastCall.anchor # Vec2ZERO

\* C3: after zoom_by the zoom lies in [0.01, 100.0]; a product above 100.0
\* becomes 100.0, a product below 0.01 becomes 0.01, any other is kept.
C3_ZoomClamped ==
    LastCall.op = "zoom_by" =>
        /\ RLe(ZOOM_MIN, viewport.zoom)
        /\ RLe(viewport.zoom, ZOOM_MAX)
        /\ RLt(ZOOM_MAX, Product(LastCall)) => viewport.zoom = R(100)
        /\ RLt(Product(LastCall), ZOOM_MIN) => viewport.zoom = <<1, 100>>
        /\ ~Clamped(LastCall) => viewport.zoom = Product(LastCall)

\* A zoom_by whose product fell below 0.01, from a zoom other than the
\* default, after an earlier zoom_by.
C3_Witness ==
    /\ LastCall.op = "zoom_by"
    /\ PrevCall.op = "zoom_by"
    /\ RLt(Product(LastCall), ZOOM_MIN)
    /\ LastCall.before.zoom # R(1)
    /\ viewport.zoom # LastCall.before.zoom

\* C10 as stated: after any pan_by or zoom_by call, from any fit-mode, the
\* fit-mode is Custom.
C10_Original == LastCall.op \in {"pan_by", "zoom_by"} => viewport.fit_mode = "Custom"

\* C10 amended: after zoom_by the fit-mode is Custom whatever it was; after
\* pan_by it is Custom when it was Fit or Custom and still ActualSize when it
\* was ActualSize.
C10_CustomOnInput ==
    /\ LastCall.op = "zoom_by" => viewport.fit_mode = "Custom"
    /\ LastCall.op = "pan_by" =>
           viewport.fit_mode =
               IF LastCall.before.fit_mode = "ActualSize" THEN "ActualSize"
               ELSE "Custom"

\* A pan from Fit, the mode a fit_to_area call had just set from ActualSize.
C10_Witness ==
    /\ LastCall.op = "pan_by"
    /\ LastCall.before.fit_mode = "Fit"
    /\ PrevCall.op = "fit_to_area"
    /\ PrevCall.before.fit_mode = "ActualSize"
    /\ viewport.fit_mode = "Custom"

\* The fields pan_by and fit_to_area have no business with
Orientation(vp) == <<vp.rotation_deg, vp.mirror_h, vp.mirror_v>>

\* C11: pan_by(delta) adds delta to the pan, turns Fit into Custom and
\* leaves ActualSize and Custom as they are, and changes neither zoom nor
\* rotation nor the mirror flags; a pan that follows a pan changes no mode.
C11_PanBy ==
    LastCall.op = "pan_by" =>
        LET b == LastCall.before
        IN  /\ viewport.pan = VAdd(b.pan, LastCall.delta)
            /\ viewport.fit_mode =
                   IF b.fit_mode = "Fit" THEN "Custom" ELSE b.fit_mode
            /\ viewport.zoom = b.zoom
            /\ Orientation(viewport) = Orientation(b)
            /\ PrevCall.op = "pan_by" =>
                   /\ b.fit_mode # "Fit"
                   /\ viewport.fit_mode = b.fit_mode

\* Two pans in a row from Fit: the first made the mode Custom, the second
\* moved the image further and kept it.
C11_Witness ==
    /\ LastCall.op = "pan_by"
    /\ PrevCall.op = "pan_by"
    /\ PrevCall.before.fit_mode = "Fit"
    /\ PrevCall.before.set_by = "fit_to_area"
    /\ viewport.fit_mode = "Custom"
    /\ viewport.pan = VAdd(LastCall.delta, PrevCall.delta)

\* Any of the four arguments of a recorded fit_to_area call is <= 0
NonPositive(c) ==
    \/ RLe(c.doc[1], R(0)) \/ RLe(c.doc[2], R(0))
    \/ RLe(c.area[1], R(0)) \/ RLe(c.area[2], R(0))

\* C12: fit_to_area with a non-positive argument changes nothing; otherwise
\* zoom = min(area_w/eff_w, area_h/eff_h) with the document's sides swapped
\* at 90 and 270 degrees, pan is zero, the mode is Fit and the rotation and
\* mirror flags are kept.  200x100 in 400x400 gives 2, in 100x200 gives 1/2.
C12_FitToArea ==
    LastCall.op = "fit_to_area" =>
        LET b == LastCall.before
            d == LastCall.doc
            a == LastCall.area
            turned == b.rotation_deg \in {90, 270}
            eff_w == IF turned THEN d[2] ELSE d[1]
            eff_h == IF turned THEN d[1] ELSE d[2]
        IN  /\ b.rotation_deg \in {0, 90, 180, 270}
            /\ NonPositive(LastCall) => viewport = b
            /\ ~NonPositive(LastCall) =>
                   /\ viewport.zoom = RMin(RDiv(a[1], eff_w), RDiv(a[2], eff_h))
                   /\ viewport.pan = Vec2ZERO
                   /\ viewport.fit_mode = "Fit"
                   /\ Orientation(viewport) = Orientation(b)
            /\ (d = <<R(200), R(100)>> /\ a = <<R(400), R(400)>> /\ ~turned)
                   => viewport.zoom = R(2)
            /\ (d = <<R(200), R(100)>> /\ a = <<R(100), R(200)>> /\ ~turned)
                   => viewport.zoom = <<1, 2>>

\* A 200x100 document turned by 90 degrees is fitted into 100x200 at zoom 1,
\* from a viewport that had been panned.
C12_Witness ==
    /\ LastCall.op = "fit_to_area"
    /\ LastCall.before.rotation_deg \in {90, 270}
    /\ LastCall.doc = <<R(200), R(100)>>
    /\ LastCall.area = <<R(100), R(200)>>
    /\ viewport.zoom = R(1)
    /\ viewport.fit_mode = "Fit"
    /\ viewport.rotation_deg = LastCall.before.rotation_deg

-----------------------------------------------------------------------------
(* Quarter turns: rotate_cw and rotate_ccw in any order from a fresh       *)
(* Viewport, with mirror toggles and resets in between.  A call record     *)
(* counts the rotate_cw and rotate_ccw calls since the viewport was fresh, *)
(* and the length of the run of equal rotate calls it ends, with the       *)
(* rotation the run started from.                                          *)

MaxTurns == 5

NoTurn == [op |-> "none", cw |-> 0, ccw |-> 0, run |-> 0, origin |-> 0]

Turned(c, vp) ==
    /\ n_calls < MaxTurns
    /\ n_calls' = n_calls + 1
    /\ viewport' = vp
    /\ calls' = <<c, calls[1]>>
    /\ UNCHANGED appvars

RunAfter(op) ==
    IF calls[1].op = op
    THEN [run |-> calls[1].run + 1, origin |-> calls[1].origin]
    ELSE [run |-> 1, origin |-> viewport.rotation_deg]

TurnCw ==
    Turned([op |-> "rotate_cw", cw |-> calls[1].cw + 1, ccw |-> calls[1].ccw,
            run |-> RunAfter("rotate_cw").run,
            origin |-> RunAfter("rotate_cw").origin],
           rotate_cw(viewport))

TurnCcw ==
    Turned([op |-> "rotate_ccw", cw |-> calls[1].cw, ccw |-> calls[1].ccw + 1,
            run |-> RunAfter("rotate_ccw").run,
            origin |-> RunAfter("rotate_ccw").origin],
           rotate_ccw(viewport))

TurnMirror ==
    Turned([op |-> "toggle_mirror_h", cw |-> calls[1].cw, ccw |-> calls[1].ccw,
            run |-> 0, origin |-> viewport.rotation_deg],
           toggle_mirror_h(viewport))

TurnReset == Turned(NoTurn, reset(viewport))

TurnInit ==
    /\ AppNew(<<>>)
    /\ calls = <<NoTurn, NoTurn>>
    /\ n_calls = 0

TurnNext ==
    \/ TurnCw
    \/ TurnCcw
    \/ TurnMirror
    \/ TurnReset

SpecTurns == TurnInit /\ [][TurnNext]_vars

\* C13: after any sequence of rotate_cw and rotate_ccw calls from a fresh
\* viewport the rotation is in [0, 360) and equals 90 * (cw calls - ccw
\* calls) mod 360; four rotate_cw calls in a row, or four rotate_ccw calls in
\* a row, bring the rotation back to what it was before them.
C13_QuarterTurns ==
    /\ viewport.rotation_deg >= 0
    /\ viewport.rotation_deg < 360
    /\ viewport.rotation_deg = (90 * (calls[1].cw - calls[1].ccw)) % 360
    /\ (calls[1].op \in {"rotate_cw", "rotate_ccw"} /\ calls[1].run = 4) =>
           viewport.rotation_deg = calls[1].origin

\* Four rotate_ccw calls in a row that started at 90 degrees and passed 0.
C13_Witness ==
    /\ calls[1].op = "rotate_ccw"
    /\ calls[1].run = 4
    /\ calls[1].origin = 90
    /\ calls[1].cw = 1
    /\ calls[1].ccw = 4
    /\ viewport.rotation_deg = 90

-----------------------------------------------------------------------------
(* Export on its own: render_for_export of a loaded document at any target *)
(* size of the set below, under a viewport turned and mirrored in any of   *)
(* the sixteen ways the rotate and mirror methods can leave it, and then   *)
(* zoomed, panned or set to actual size; and render_to_pixmap of the same  *)
(* document and viewport for the display.                                  *)

MaxExports == 2

\* Requested sizes: the document's own (what the export dialog opens with),
\* its sides swapped, a square, one pixel, and sizes outside [1, 4096].
ExportTargets ==
    {<<200, 100>>, <<100, 200>>, <<100, 100>>, <<4, 4>>, <<1, 1>>, <<0, 5000>>}

ExportDocs == {SvgDocument_load(f).doc : f \in {"a.svg", "b.svg"}}

Orientations ==
    {[ViewportDefault EXCEPT !.rotation_deg = r, !.mirror_h = h, !.mirror_v = v] :
        r \in {0, 90, 180, 270}, h \in BOOLEAN, v \in BOOLEAN}

NoExport == [op |-> "none"]

ExportRender ==
    \E t \in ExportTargets :
        /\ n_calls < MaxExports
        /\ document # <<>>
        /\ n_calls' = n_calls + 1
        /\ calls' = <<[op |-> "render_for_export", doc |-> document[1],
                       vp |-> viewport, width |-> t[1], height |-> t[2],
                       result |-> render_for_export(document[1], t[1], t[2],
                                                    viewport)],
                      calls[1]>>
        /\ UNCHANGED <<appvars, viewport>>

ExportMoved(op, vp) ==
    /\ n_calls < MaxExports
    /\ n_calls' = n_calls + 1
    /\ viewport' = vp
    /\ calls' = <<[op |-> op], calls[1]>>
    /\ UNCHANGED appvars

ExportTurn == ExportMoved("rotate_cw", rotate_cw(viewport))

\* A zoom step, and pinches that run into either end of the zoom range
ExportFactors == {<<5, 4>>, <<1, 1000>>, <<1000, 1>>}

ExportZoom ==
    \E f \in ExportFactors :
        ExportMoved("zoom_by", zoom_by(viewport, f, <<R(10), R(0)>>))

ExportPan == ExportMoved("pan_by", pan_by(viewport, <<R(5), R(-3)>>))

ExportActualSize == ExportMoved("set_actual_size", set_actual_size(viewport, R(2)))

\* Display areas: none yet, a window, and one larger than MAX_RENDER_DIM
DisplayAreas == {<<R(0), R(0)>>, <<R(400), R(300)>>, <<R(5000), R(5000)>>}

ExportDisplay ==
    \E area \in DisplayAreas, ppp \in PixelsPerPoint :
        /\ n_calls < MaxExports
        /\ document # <<>>
        /\ n_calls' = n_calls + 1
        /\ calls' = <<[op |-> "render_to_pixmap", doc |-> document[1],
                       vp |-> viewport, area |-> area, ppp |-> ppp,
                       result |-> render_to_pixmap(document[1], viewport,
                                                   area[1], area[2], ppp)],
                      calls[1]>>
        /\ UNCHANGED <<appvars, viewport>>

ExportInit ==
    /\ document \in {<<d>> : d \in ExportDocs}
    /\ viewport \in Orientations
    /\ renderer = RendererNew
    /\ navigator = FileNavigatorNew
    /\ error_message = <<>>
    /\ render_dirty = TRUE
    /\ last_area_size = <<R(0), R(0)>>
    /\ zoom_idle_since = <<>>
    /\ pending_rerender = FALSE
    /\ initial_file = <<>>
    /\ pending_load = <<>>
    /\ last_pixels_per_point = R(0)
    /\ cap_initial_zoom = TRUE
    /\ threads = <<>>
    /\ pc = "start"
    /\ has_file = TRUE
    /\ n_inputs = 0
    /\ repaint = TRUE
    /\ ev = NoEvent
    /\ calls = <<NoExport, NoExport>>
    /\ n_calls = 0

ExportNext ==
    \/ ExportRender
    \/ ExportDisplay
    \/ ExportTurn
    \/ ExportZoom
    \/ ExportPan
    \/ ExportActualSize

SpecExport == ExportInit /\ [][ExportNext]_vars

\* The corners of the document rectangle, and where a transform takes them
DocCorners(doc) ==
    {<<R(0), R(0)>>, <<doc.width, R(0)>>, <<R(0), doc.height>>,
     <<doc.width, doc.height>>}

Inside(p, w, h) ==
    /\ RLe(R(0), p[1]) /\ RLe(p[1], R(w))
    /\ RLe(R(0), p[2]) /\ RLe(p[2], R(h))

\* C20: for every rotation in {0, 90, 180, 270}, every combination of the
\* mirror flags and all positive document and target sizes, the transform
\* render_for_export draws under takes the document rectangle inside the
\* target rectangle and the document center to the target center.
C20_ExportShowsWholeDocument ==
    (calls[1].op = "render_for_export"
        /\ calls[1].width > 0 /\ calls[1].height > 0) =>
        LET c == calls[1]
            px == c.result.pixmap
        IN  /\ \A p \in DocCorners(c.doc) :
                   Inside(MapPoint(px.transform, p), px.width, px.height)
            /\ MapPoint(px.transform,
                        <<RMul(c.doc.width, <<1, 2>>),
                          RMul(c.doc.height, <<1, 2>>)>>)
                   = <<RMul(R(px.width), <<1, 2>>), RMul(R(px.height), <<1, 2>>)>>

\* The viewport with the rotation and mirror flags of vp and nothing else
OrientationOnly(vp) ==
    [ViewportDefault EXCEPT !.rotation_deg = vp.rotation_deg,
                            !.mirror_h = vp.mirror_h, !.mirror_v = vp.mirror_v]

\* C21: render_for_export gives the pixel-buffer size and the transform it
\* gives for the viewport of the same rotation and mirror flags with default
\* pan, zoom and fit-mode: viewports that agree on rotation and mirror flags
\* give the same export, whatever their pan, zoom and fit-mode.
C21_ExportIgnoresPanZoom ==
    calls[1].op = "render_for_export" =>
        LET c == calls[1]
            other == render_for_export(c.doc, c.width, c.height,
                                       OrientationOnly(c.vp)).pixmap
        IN  /\ c.result.pixmap.width = other.width
            /\ c.result.pixmap.height = other.height
            /\ c.result.pixmap.transform = other.transform

\* An export under a zoomed and panned viewport in Custom mode
C21_Witness ==
    /\ calls[1].op = "render_for_export"
    /\ calls[1].vp.zoom # R(1)
    /\ calls[1].vp.pan # Vec2ZERO
    /\ calls[1].vp.fit_mode = "Custom"
    /\ calls[1].vp.rotation_deg = 90

\* The renders among the last two calls
Renders == {c \in {calls[1], calls[2]} :
               c.op \in {"render_for_export", "render_to_pixmap"}}

\* C22: every pixel buffer render_to_pixmap or render_for_export allocates
\* has width and height in [1, 4096], whatever the zoom, the area, the
\* pixels per point and the requested export size.
C22_BufferSizeInRange ==
    \A c \in Renders :
        c.result.ok =>
            /\ c.result.pixmap.width \in 1..MAX_RENDER_DIM
            /\ c.result.pixmap.height \in 1..MAX_RENDER_DIM

\* A display render whose computed width is 0, followed by an export
\* requested at width 0 and height 5000
C22_Witness ==
    /\ calls[2].op = "render_to_pixmap"
    /\ calls[2].area = <<R(0), R(0)>>
    /\ calls[2].result.ok
    /\ calls[2].result.pixmap.width = 1
    /\ calls[1].op = "render_for_export"
    /\ calls[1].width = 0 /\ calls[1].height = 5000
    /\ calls[1].result.pixmap.width = 1
    /\ calls[1].result.pixmap.height = MAX_RENDER_DIM

-----------------------------------------------------------------------------
(* Export post-processing on its own: un_premultiply_alpha,                *)
(* composite_over_background and save_pixmap, each called once on a row   *)
(* of up to MaxPixels pixels.  calls[1] is that call.                      *)

MaxPixels == 2

\* Premultiplied pixels: half-transparent and opaque red, transparent black,
\* two pixels whose quotients fall half-way between two bytes, and bytes no
\* premultiplied pixel has (a channel above alpha, colour under alpha 0).
Pixels ==
    {<<128, 0, 0, 128>>, <<255, 0, 0, 255>>, <<0, 0, 0, 0>>, <<1, 0, 0, 2>>,
     <<3, 1, 5, 6>>, <<200, 100, 50, 100>>, <<10, 20, 30, 0>>}

RECURSIVE Flat(_)
Flat(row) == IF row = <<>> THEN <<>> ELSE row[1] \o Flat(Tail(row))

PixelRows ==
    {Flat(row) : row \in UNION {[1..n -> Pixels] : n \in 0..MaxPixels}}

Backgrounds == {<<255, 255, 255>>, <<0, 128, 77>>}

NoSave == [op |-> "none"]

PxCalled(c) ==
    /\ n_calls = 0
    /\ n_calls' = 1
    /\ calls' = <<c, NoSave>>
    /\ UNCHANGED <<appvars, viewport>>

PxUnPremultiply ==
    \E data \in PixelRows :
        PxCalled([op |-> "un_premultiply_alpha", data |-> data,
                  result |-> un_premultiply_alpha(data)])

PxComposite ==
    \E data \in PixelRows, bg \in Backgrounds :
        PxCalled([op |-> "composite_over_background", data |-> data, bg |-> bg,
                  result |-> composite_over_background(data, bg)])

PxSave ==
    \E data \in PixelRows, bg \in Backgrounds, f \in ExportFormat,
       alpha \in BOOLEAN :
        LET pixmap == [width |-> Len(data) \div 4, height |-> 1, data |-> data]
            settings == [format |-> f, include_alpha |-> alpha,
                         background_color |-> bg]
        IN  PxCalled([op |-> "save_pixmap", pixmap |-> pixmap,
                      settings |-> settings,
                      result |-> save_pixmap(pixmap, settings)])

PxInit ==
    /\ AppNew(<<>>)
    /\ calls = <<NoSave, NoSave>>
    /\ n_calls = 0

PxNext ==
    \/ PxUnPremultiply
    \/ PxComposite
    \/ PxSave

SpecPixels == PxInit /\ [][PxNext]_vars

\* The pixels of a row of bytes, as the set of their positions
PixelsOf(data) == 1..(Len(data) \div 4)
Byte(data, i, ch) == data[4 * (i - 1) + ch]

\* C23: save_pixmap un-premultiplies and keeps the alpha channel exactly
\* when the format supports alpha and include_alpha is set; in every other
\* case it composites over the background color and writes RGB.
C23_SaveKeepsAlphaWhenAsked ==
    calls[1].op = "save_pixmap" =>
        LET c == calls[1]
            img == c.result.image
        IN  IF supports_alpha(c.settings.format) /\ c.settings.include_alpha
            THEN /\ img.kind = "RgbaImage"
                 /\ img.raw = un_premultiply_alpha(c.pixmap.data)
                 /\ Len(img.raw) = 4 * c.pixmap.width * c.pixmap.height
            ELSE /\ img.kind = "RgbImage"
                 /\ img.raw = composite_over_background(
                                  c.pixmap.data, c.settings.background_color)
                 /\ Len(img.raw) = 3 * c.pixmap.width * c.pixmap.height

\* A format that supports alpha saved with include_alpha off, of a pixel
\* that is not opaque
C23_Witness ==
    /\ calls[1].op = "save_pixmap"
    /\ calls[1].settings.format = "Tiff"
    /\ ~calls[1].settings.include_alpha
    /\ calls[1].pixmap.data = <<128, 0, 0, 128>>
    /\ calls[1].result.image.kind = "RgbImage"

\* min(255, round(c * 255 / alpha)), rounded half up
RoundedQuotient(c, alpha) ==
    LET up == (2 * c * 255 + alpha) \div (2 * alpha)
    IN  IF up > 255 THEN 255 ELSE up

\* c * 255 / alpha lies half-way between two integers
HalfWay(c, alpha) ==
    /\ (2 * c * 255) % alpha = 0
    /\ ((2 * c * 255) \div alpha) % 2 = 1

\* C24 as stated: each channel of a pixel with alpha > 0 becomes
\* min(255, round(c * 255 / alpha)).
C24_Original ==
    calls[1].op = "un_premultiply_alpha" =>
        \A i \in PixelsOf(calls[1].data) : \A ch \in 1..3 :
            Byte(calls[1].data, i, 4) > 0 =>
                Byte(calls[1].result, i, ch)
                    = RoundedQuotient(Byte(calls[1].data, i, ch),
                                      Byte(calls[1].data, i, 4))

\* C24: un_premultiply_alpha gives as many pixels as it was given; a pixel
\* with alpha 0 becomes (0,0,0,0); a pixel with alpha > 0 keeps its alpha,
\* and each channel becomes min(255, round(c * 255 / alpha)), or one less
\* than that when c * 255 / alpha lies half-way between two integers and
\* the single-precision quotient falls below the half.
C24_UnPremultiply ==
    calls[1].op = "un_premultiply_alpha" =>
        LET c == calls[1]
        IN  /\ Len(c.result) = 4 * (Len(c.data) \div 4)
            /\ \A i \in PixelsOf(c.data) :
                   LET alpha == Byte(c.data, i, 4)
                   IN  IF alpha = 0
                       THEN \A ch \in 1..4 : Byte(c.result, i, ch) = 0
                       ELSE /\ Byte(c.result, i, 4) = alpha
                            /\ \A ch \in 1..3 :
                                   LET q == RoundedQuotient(Byte(c.data, i, ch), alpha)
                                       out == Byte(c.result, i, ch)
                                   IN  \/ out = q
                                       \/ /\ HalfWay(Byte(c.data, i, ch), alpha)
                                          /\ out = q - 1
            /\ c.data = <<128, 0, 0, 128>> => c.result = <<255, 0, 0, 128>>
            /\ c.data = <<255, 0, 0, 255>> => c.result = c.data

\* A half-way quotient that comes out one below the rounded one: 1 * 255 / 2
C24_Witness ==
    /\ calls[1].op = "un_premultiply_alpha"
    /\ calls[1].data = <<1, 0, 0, 2, 3, 1, 5, 6>>
    /\ calls[1].result = <<127, 0, 0, 2, 128, 43, 213, 6>>

\* min(255, round(c + b * (1 - alpha / 255))), in rationals
Composited(c, b, alpha) ==
    LET x == RAdd(R(c), RMul(R(b), RSub(R(1), Rat(alpha, 255))))
    IN  IF RoundU32(x) > 255 THEN 255 ELSE RoundU32(x)

\* C25: composite_over_background gives three bytes per pixel, each
\* min(255, round(premultiplied channel + background channel * (1 - a/255)));
\* an opaque pixel gives its own colour and the transparent pixel (0,0,0,0)
\* gives the background colour.
C25_CompositeOverBackground ==
    calls[1].op = "composite_over_background" =>
        LET c == calls[1]
        IN  /\ Len(c.result) = 3 * (Len(c.data) \div 4)
            /\ \A i \in PixelsOf(c.data) : \A ch \in 1..3 :
                   /\ c.result[3 * (i - 1) + ch]
                          = Composited(Byte(c.data, i, ch), c.bg[ch],
                                       Byte(c.data, i, 4))
                   /\ Byte(c.data, i, 4) = 255 =>
                          c.result[3 * (i - 1) + ch] = Byte(c.data, i, ch)
                   /\ SubSeq(c.data, 4 * i - 3, 4 * i) = <<0, 0, 0, 0>> =>
                          c.result[3 * (i - 1) + ch] = c.bg[ch]

\* A half-transparent pixel and the transparent one over a coloured
\* background
C25_Witness ==
    /\ calls[1].op = "composite_over_background"
    /\ calls[1].data = <<128, 0, 0, 128, 0, 0, 0, 0>>
    /\ calls[1].bg = <<0, 128, 77>>
    /\ calls[1].result = <<128, 64, 38, 0, 128, 77>>

-----------------------------------------------------------------------------
(* The FileNavigator on its own: next and prev in any order on the list a  *)
(* scan left, for directories of zero to three files, and further scans.   *)

MaxMoves == 3

\* What scan_directory can leave: a sorted listing and the index of the file
\* in it, or index 0 when the listing does not hold the file.
Listings == {<<>>, <<"a.svg">>, <<"a.svg", "b.svg">>, DirListing}
Scanned == {ScanOf(l, f) : l \in Listings, f \in Files}

Moved(c, nav) ==
    /\ n_calls < MaxMoves
    /\ n_calls' = n_calls + 1
    /\ navigator' = nav
    /\ calls' = <<c, calls[1]>>
    /\ UNCHANGED <<document, viewport, renderer, error_message, render_dirty,
                   last_area_size, zoom_idle_since, pending_rerender,
                   initial_file, pending_load, last_pixels_per_point,
                   cap_initial_zoom, threads, pc, has_file, n_inputs, ev,
                   repaint>>

NavNext ==
    Moved([op |-> "next", before |-> navigator, path |-> next(navigator).path],
          next(navigator).nav)

NavPrev ==
    Moved([op |-> "prev", before |-> navigator, path |-> prev(navigator).path],
          prev(navigator).nav)

\* What scan_directory can be given: a file, or a path without a parent
ScanPaths == Files \cup Parentless

NavScan ==
    \E l \in Listings, f \in ScanPaths :
        Moved([op |-> "scan_directory", before |-> navigator, path |-> <<f>>],
              scan_directory_listing(navigator, l, f))

\* The application as constructed, but for the navigator, which a scan has
\* filled.
NavInit ==
    /\ navigator \in Scanned
    /\ document = <<>>
    /\ viewport = ViewportDefault
    /\ renderer = RendererNew
    /\ error_message = <<>>
    /\ render_dirty = TRUE
    /\ last_area_size = <<R(0), R(0)>>
    /\ zoom_idle_since = <<>>
    /\ pending_rerender = FALSE
    /\ initial_file = <<>>
    /\ pending_load = <<>>
    /\ last_pixels_per_point = R(0)
    /\ cap_initial_zoom = TRUE
    /\ threads = <<>>
    /\ pc = "start"
    /\ has_file = FALSE
    /\ n_inputs = 0
    /\ repaint = TRUE
    /\ ev = NoEvent
    /\ calls = <<NoCall, NoCall>>
    /\ n_calls = 0

NavStep == NavNext \/ NavPrev \/ NavScan

SpecNavigator == NavInit /\ [][NavStep]_vars

\* C14: on a list of n > 0 files next moves the index i to (i + 1) mod n and
\* prev to (i - 1) mod n (n - 1 to 0, 0 to n - 1) and each returns the file
\* at the new index; on an empty list both return nothing and change
\* nothing.  The list is never changed.
C14_NextPrevWrap ==
    calls[1].op \in {"next", "prev"} =>
        LET b == calls[1].before
            n == Len(b.files)
            i == b.current_index
            step == IF calls[1].op = "next" THEN 1 ELSE -1
        IN  /\ navigator.files = b.files
            /\ n = 0 => calls[1].path = <<>> /\ navigator = b
            /\ n > 0 =>
                   /\ i < n
                   /\ navigator.current_index = (i + step) % n
                   /\ calls[1].path = <<b.files[navigator.current_index + 1]>>
                   /\ (calls[1].op = "next" /\ i = n - 1) =>
                          navigator.current_index = 0
                   /\ (calls[1].op = "prev" /\ i = 0) =>
                          navigator.current_index = n - 1

\* prev from the first of three files, reached by a next that had wrapped
\* from the last, returns the last file.
C14_Witness ==
    /\ calls[1].op = "prev"
    /\ calls[2].op = "next"
    /\ Len(navigator.files) = 3
    /\ calls[2].before.current_index = 2
    /\ calls[1].before.current_index = 0
    /\ navigator.current_index = 2
    /\ calls[1].path = <<"bad.svg">>

-----------------------------------------------------------------------------
(* The application: frames of SvgViewerApp::update on the UI thread,       *)
(* interleaved with the load threads.  A frame runs in five steps, in the  *)
(* order of the code; each step takes the user input it reads.             *)

MaxInputs == 2

\* ctx.pixels_per_point()
CtxPixelsPerPoint == {R(1)}
\* time between two frames, in ms
FrameGaps == {0, 100}
\* ui.available_size() of the central panel
CanvasAreas == {<<R(400), R(300)>>, <<R(1000), R(700)>>}

OneFlag(f) == [ToolbarActionDefault EXCEPT ![f] = TRUE]

\* What one click on the toolbar sets; without a document only Open is
\* enabled.  The dialog returns a file or is cancelled.
ToolbarClicks(file) ==
    {[OneFlag("open_file") EXCEPT !.picked = pk] :
        pk \in {<<>>} \cup {<<f>> : f \in Files}}
    \cup IF file
         THEN {OneFlag(f) : f \in {"prev_file", "next_file", "fit_to_window",
                                   "actual_size", "zoom_in", "reset_view"}}
         ELSE {}

\* What one shortcut sets; without a document only Ctrl+O is handled.
Shortcuts(file) ==
    {[OneFlag("open_file") EXCEPT !.picked = <<"bad.svg">>]}
    \cup IF file
         THEN {OneFlag(f) : f \in {"prev_file", "next_file", "zoom_in",
                                   "zoom_out", "rotate_cw", "rotate_ccw",
                                   "mirror_h", "mirror_v"}}
              \cup {[OneFlag("copy_clipboard") EXCEPT !.clipboard_fails = TRUE]}
         ELSE {}

\* The file given on the command line, if any.
InitialFiles == {<<>>, <<"a.svg">>}

NoPointer ==
    [drag |-> <<>>, zoom_delta |-> R(1), scroll |-> 0, hovered |-> FALSE,
     cursor |-> Vec2ZERO]

PointerInputs ==
    {[NoPointer EXCEPT !.drag = <<<<R(10), R(5)>>>>, !.hovered = TRUE],
     [NoPointer EXCEPT !.zoom_delta = R(2), !.hovered = TRUE,
                       !.cursor = <<R(30), R(-20)>>],
     [NoPointer EXCEPT !.zoom_delta = R(2), !.hovered = FALSE],
     [NoPointer EXCEPT !.scroll = 1, !.hovered = TRUE],
     [NoPointer EXCEPT !.scroll = -1, !.hovered = TRUE,
                       !.cursor = <<R(30), R(-20)>>,
                       !.drag = <<<<R(10), R(5)>>>>]}

\* One more user input, while the budget lasts.  egui asks for another
\* frame after a frame that received input events, and the pinch and scroll
\* handlers of update call ctx.request_repaint() themselves.
Input ==
    /\ n_inputs < MaxInputs
    /\ n_inputs' = n_inputs + 1
    /\ repaint' = TRUE
NoInput == UNCHANGED <<n_inputs, repaint>>

\* A frame that begins gap ms after the last one
FrameStartAfter(gap) ==
    /\ pc = "start"
    /\ \E ppp \in CtxPixelsPerPoint :
           LET s == UpdateStart(Self, ppp, gap)
           IN  /\ Commit(s)
               /\ has_file' = (s.document # <<>>)
               \* the poll that puts the pending load back asks for a frame
               /\ repaint' = (s.ev.kind = "bg_empty")
    /\ pc' = "dropped"
    /\ UNCHANGED <<n_inputs, calls, n_calls>>

FrameStart == \E gap \in FrameGaps : FrameStartAfter(gap)

FrameDropped ==
    /\ pc = "dropped"
    /\ \/ Commit(UpdateDropped(Self, <<>>)) /\ NoInput
       \/ \E f \in Files : Commit(UpdateDropped(Self, <<f>>)) /\ Input
    /\ pc' = "toolbar"
    /\ UNCHANGED <<has_file, calls, n_calls>>

FrameToolbar ==
    /\ pc = "toolbar"
    /\ \/ Commit(handle_action(Self, ToolbarActionDefault, Vec2ZERO)) /\ NoInput
       \/ \E a \in ToolbarClicks(has_file) :
              Commit(handle_action(Self, a, Vec2ZERO)) /\ Input
    /\ pc' = "keyboard"
    /\ UNCHANGED <<has_file, calls, n_calls>>

FrameKeyboard ==
    /\ pc = "keyboard"
    /\ \/ Commit(handle_action(Self, ToolbarActionDefault, Vec2ZERO)) /\ NoInput
       \/ \E a \in Shortcuts(has_file) :
              Commit(handle_action(Self, a, Vec2ZERO)) /\ Input
    /\ pc' = "canvas"
    /\ UNCHANGED <<has_file, calls, n_calls>>

\* The panel has its size of the last frame (any size the first time), or
\* the user has resized the window, or the user moves the pointer.
FrameCanvas ==
    /\ pc = "canvas"
    /\ \/ \E area \in CanvasAreas :
              /\ area = last_area_size \/ last_area_size = <<R(0), R(0)>>
              /\ Commit(UpdateCanvas(Self, area, NoPointer))
              \* the end of update asks for a frame while a re-render is
              \* pending
              /\ repaint' = (repaint \/ pending_rerender')
              /\ UNCHANGED n_inputs
       \/ \E area \in CanvasAreas :
              /\ last_area_size # <<R(0), R(0)>>
              /\ area # last_area_size
              /\ Commit(UpdateCanvas(Self, area, NoPointer))
              /\ Input
       \/ \E area \in CanvasAreas, in \in PointerInputs :
              /\ area = last_area_size \/ last_area_size = <<R(0), R(0)>>
              /\ document # <<>>
              /\ Commit(UpdateCanvas(Self, area, in))
              /\ Input
    /\ pc' = "start"
    /\ UNCHANGED <<has_file, calls, n_calls>>

\* A send that succeeds although the receiver is gone
ThreadFinish_queue_always ==
    \E i \in 1..Len(threads) :
        /\ threads[i].status = "running"
        /\ LET t == threads[i]
               result == LoadedFile(t.path, t.area_w, t.area_h, t.ppp)
           IN  threads' = [threads EXCEPT ![i].status = "done",
                                          ![i].slot = <<result>>]
        /\ UNCHANGED <<document, viewport, renderer, navigator, error_message,
                       render_dirty, last_area_size, zoom_idle_since,
                       pending_rerender, initial_file, pending_load,
                       last_pixels_per_point, cap_initial_zoom, pc, has_file,
                       n_inputs, repaint, calls, n_calls>>
        /\ ev' = NoEvent

\* A load thread ends: it sends its result, which is queued while the
\* receiver lives and dropped with the channel otherwise.
ThreadFinish ==
    \E i \in 1..Len(threads) :
        /\ threads[i].status = "running"
        /\ LET t == threads[i]
               result == LoadedFile(t.path, t.area_w, t.area_h, t.ppp)
           IN  threads' = [threads EXCEPT
                              ![i].status = "done",
                              ![i].slot = IF t.rx_alive THEN <<result>> ELSE <<>>]
        /\ UNCHANGED <<document, viewport, renderer, navigator, error_message,
                       render_dirty, last_area_size, zoom_idle_since,
                       pending_rerender, initial_file, pending_load,
                       last_pixels_per_point, cap_initial_zoom, pc, has_file,
                       n_inputs, repaint, calls, n_calls>>
        /\ ev' = NoEvent

\* A load thread panics inside the parser or the rasterizer: the sender is
\* dropped and nothing was sent.
ThreadPanic ==
    \E i \in 1..Len(threads) :
        /\ threads[i].status = "running"
        /\ threads' = [threads EXCEPT ![i].status = "panicked"]
        /\ UNCHANGED <<document, viewport, renderer, navigator, error_message,
                       render_dirty, last_area_size, zoom_idle_since,
                       pending_rerender, initial_file, pending_load,
                       last_pixels_per_point, cap_initial_zoom, pc, has_file,
                       n_inputs, repaint, calls, n_calls>>
        /\ ev' = NoEvent

Init ==
    /\ \E f \in InitialFiles : AppNew(f)
    /\ calls = <<NoCall, NoCall>>
    /\ n_calls = 0

Next ==
    \/ FrameStart
    \/ FrameDropped
    \/ FrameToolbar
    \/ FrameKeyboard
    \/ FrameCanvas
    \/ ThreadFinish
    \/ ThreadPanic

Spec == Init /\ [][Next]_vars

\* The scheduling: a frame that has begun runs to its end; a frame that is
\* due (egui was asked for it) begins, and time passes between due frames;
\* a load thread runs to its end.
FrameDue == repaint /\ \E gap \in FrameGaps \ {0} : FrameStartAfter(gap)

ThreadEnd == ThreadPanic \/ ThreadFinish

\* WF_vars(FrameCanvas) with its ENABLED written out: the canvas pass is
\* enabled exactly when pc = "canvas", and every canvas pass leaves it.
CanvasRuns == []<>(pc # "canvas")

Fairness ==
    /\ SF_vars(FrameDue)
    /\ WF_vars(FrameDropped)
    /\ WF_vars(FrameToolbar)
    /\ WF_vars(FrameKeyboard)
    /\ CanvasRuns
    /\ WF_vars(ThreadEnd)

SpecLive == Init /\ [][Next]_vars /\ Fairness

-----------------------------------------------------------------------------
(* Claims about the application, under Spec.                               *)

\* C4: in every reachable state of the application the zoom is positive and
\* within [0.01, 100.0].
C4_ZoomInRange ==
    /\ RLt(R(0), viewport.zoom)
    /\ RLe(ZOOM_MIN, viewport.zoom)
    /\ RLe(viewport.zoom, ZOOM_MAX)

LoadFailures == {"sync_err", "bg_err", "bg_disconnected"}

\* C5: a step in which a load fails (a synchronous load error, a background
\* load that sent an error, a disconnected channel) sets an error message and
\* leaves the document and the viewport as they were; the disconnected case
\* sets the generic message and leaves no pending load.
C5_FailedLoadKeepsDocument ==
    [][ev'.kind \in LoadFailures =>
          /\ document' = document
          /\ viewport' = viewport
          /\ error_message' # <<>>
          /\ ev'.kind = "bg_disconnected" =>
                 /\ error_message' = <<<<"Loading failed unexpectedly", "">>>>
                 /\ pending_load' = <<>>
          /\ ev'.kind # "bg_disconnected" => error_message'[1][1] = "Error: "]_vars

\* The channel of a load was found disconnected while a document was shown
\* under a viewport the user had changed.
C5_Witness ==
    /\ ev.kind = "bg_disconnected"
    /\ document # <<>>
    /\ viewport.fit_mode = "Custom"
    /\ error_message # <<>>

\* The result thread t computes
SentBy(t) == LoadedFile(t.path, t.area_w, t.area_h, t.ppp)

\* C6: a successful poll replaces document, viewport and uploaded pixels in
\* one step by those of the one result received and clears render_dirty and
\* pending_rerender; a successful synchronous load replaces document and
\* viewport in one step; the document changes in no other step, and at the
\* end of every frame the pixels shown are those of the current document.
C6_AtomicSwap ==
    [][/\ ev'.kind = "bg_ok" =>
              /\ ev'.result = SentBy(threads'[ev'.thread])
              /\ document' = <<ev'.result.doc>>
              /\ viewport' = ev'.result.viewport
              /\ renderer'.texture = <<ev'.result.pixmap>>
              /\ ~render_dirty'
              /\ ~pending_rerender'
       /\ ev'.kind = "sync_ok" =>
              /\ document' = <<ev'.doc>>
              /\ viewport' = ViewportDefault
       /\ document' # document => ev'.kind \in {"bg_ok", "sync_ok"}
       /\ (pc' = "start" /\ document' # <<>>) =>
              /\ renderer'.texture # <<>>
              /\ renderer'.texture[1].path = document'[1].path]_vars

\* A poll swapped in b.svg, fitted by its thread, over a document that was
\* shown before.
C6_Witness ==
    /\ ev.kind = "bg_ok"
    /\ document[1].path = "b.svg"
    /\ viewport.zoom = R(MAX_RENDER_SCALE)
    /\ renderer.texture[1].path = "b.svg"
    /\ Len(threads) = 1

PollResults == {"bg_ok", "bg_err", "bg_disconnected", "bg_empty"}

\* C7: the controller only ever polls, and so only ever observes, the
\* background load started last: once start_background_load has started a
\* newer one, an earlier load has no receiver and no result left to receive,
\* whichever of the two threads finishes first.
C7_StaleLoadNeverObserved ==
    /\ ev.kind \in PollResults => ev.thread = Len(threads)
    /\ \A i \in 1..Len(threads) :
           i < Len(threads) => ~threads[i].rx_alive /\ threads[i].slot = <<>>

\* The second of two loads was observed after the first, replaced while in
\* flight, had finished.
C7_Witness ==
    /\ ev.kind = "bg_ok"
    /\ ev.thread = 2
    /\ threads[1].status = "done"
    /\ threads[1].path # threads[2].path

Running == {i \in 1..Len(threads) : threads[i].status = "running"}
Tracked == {i \in 1..Len(threads) : threads[i].rx_alive}

\* C8 as stated: at most one worker has been started and has not finished.
C8_Original == Cardinality(Running) <= 1

\* C8 amended: at most one load is tracked: at most one receiver is alive,
\* it is the one held in pending_load and its thread is the one started last.
C8_OneTracked ==
    /\ Cardinality(Tracked) <= 1
    /\ \A i \in Tracked : pending_load = <<i>> /\ i = Len(threads)
    /\ pending_load # <<>> => pending_load[1] \in Tracked

\* Two workers run at once and one of them is tracked.
C8_Witness ==
    /\ Cardinality(Running) = 2
    /\ Cardinality(Tracked) = 1

\* C9 as stated: the fit-mode is Fit only if the call that last set it was
\* fit_to_area, with no pan or zoom since.
C9_Original ==
    viewport.fit_mode = "Fit" =>
        viewport.set_by = "fit_to_area" /\ ~viewport.moved

\* C9 amended: the fit-mode is Fit only if the call that last set it was
\* fit_to_area or the construction of a default viewport (Viewport::default,
\* reset), with no pan or zoom since.
C9_FitOnlyAfterFit ==
    viewport.fit_mode = "Fit" =>
        viewport.set_by \in {"fit_to_area", "default"} /\ ~viewport.moved

\* A document is shown in Fit mode by a viewport that reset left default.
C9_Witness ==
    /\ viewport.fit_mode = "Fit"
    /\ viewport.set_by = "default"
    /\ document # <<>>
    /\ has_file
    /\ renderer.texture # <<>>

\* A step is the toolbar or keyboard step of a frame taking zoom_in or
\* zoom_out.
ZoomActionStep ==
    \/ /\ pc = "toolbar"
       /\ \E a \in ToolbarClicks(has_file) :
              /\ a.zoom_in \/ a.zoom_out
              /\ Commit(handle_action(Self, a, Vec2ZERO))
    \/ /\ pc = "keyboard"
       /\ \E a \in Shortcuts(has_file) :
              /\ a.zoom_in \/ a.zoom_out
              /\ Commit(handle_action(Self, a, Vec2ZERO))

\* A pointer input that zooms: a pinch or a scroll over the canvas
Zooms(in) == in.hovered /\ (in.zoom_delta # R(1) \/ in.scroll # 0)

\* A step is the canvas step of a frame taking a pinch or a scroll.
ZoomPointerStep ==
    /\ pc = "canvas"
    /\ document # <<>>
    /\ \E area \in CanvasAreas, in \in PointerInputs :
           Zooms(in) /\ Commit(UpdateCanvas(Self, area, in))

\* The deferred check released the pending re-render in this step: nothing
\* else clears the timestamp.
DeferredFired == zoom_idle_since # <<>> /\ zoom_idle_since' = <<>>

\* C15: every zoom input sets the timestamp to now and leaves the re-render
\* pending without marking the render dirty; the deferred check marks it
\* dirty only when 150 ms have passed since the timestamp was set; and the
\* canvas step of a frame that shows a document leaves the render dirty in
\* no other way.
C15_ZoomDebounced ==
    [][/\ ZoomActionStep =>
              /\ zoom_idle_since' = <<0>>
              /\ pending_rerender'
              /\ render_dirty' = render_dirty
       /\ ZoomPointerStep =>
              /\ zoom_idle_since' = <<0>>
              /\ pending_rerender'
              /\ ~render_dirty'
       /\ DeferredFired =>
              /\ pc = "canvas"
              /\ pending_rerender
              /\ zoom_idle_since[1] >= DEBOUNCE_MS
              /\ render_dirty'
              /\ ~pending_rerender'
       /\ (pc = "canvas" /\ pc' = "start" /\ document # <<>> /\ render_dirty') =>
              DeferredFired]_vars

\* The deferred check has released the re-render of a zoom: the frame ended
\* with the render dirty, nothing pending and no timestamp.
C15_Witness ==
    /\ pc = "start"
    /\ document # <<>>
    /\ viewport.set_by = "zoom_by"
    /\ render_dirty
    /\ ~pending_rerender
    /\ zoom_idle_since = <<>>
    /\ last_area_size # <<R(0), R(0)>>

\* A step is the canvas step of a frame taking a drag and no zoom.
PanOnlyStep ==
    /\ pc = "canvas"
    /\ document # <<>>
    /\ \E area \in CanvasAreas, in \in PointerInputs :
           /\ in.drag # <<>>
           /\ ~Zooms(in)
           /\ Commit(UpdateCanvas(Self, area, in))

\* C16 as stated: every drag-to-pan step sets the timestamp of the last
\* input to now and schedules the deferred re-render.
C16_Original ==
    [][PanOnlyStep => zoom_idle_since' = <<0>> /\ pending_rerender']_vars

\* C16 amended: a drag-to-pan step moves the image and leaves the timestamp
\* and the pending flag to the deferred check: unless the check fires they
\* are what they were, and a pan on its own never starts the timer.
C16_PanLeavesTimer ==
    [][PanOnlyStep =>
          /\ viewport'.moved
          /\ viewport'.fit_mode # "Fit"
          /\ ~DeferredFired =>
                 /\ zoom_idle_since' = zoom_idle_since
                 /\ pending_rerender' = pending_rerender
          /\ ~pending_rerender => ~pending_rerender']_vars

\* A drag 100 ms after a keyboard zoom: the image has moved by the drag and
\* the timestamp of the zoom is still running.
C16_Witness ==
    /\ pc = "start"
    /\ viewport.set_by = "zoom_by"
    /\ viewport.pan = <<R(10), R(5)>>
    /\ pending_rerender
    /\ zoom_idle_since = <<100>>

Failures == LoadFailures \cup {"clipboard_err"}

C18_BackgroundOnlyWithArea ==
    /\ ev.kind \in {"sync_ok", "sync_err"} => ~RLt(R(0), last_area_size[1])
    /\ ev.kind = "bg_started" =>
           /\ RLt(R(0), threads[ev.thread].area_w)
           /\ RLt(R(0), threads[ev.thread].area_h)
    /\ \A i \in 1..Len(threads) :
           RLt(R(0), threads[i].area_w) /\ RLt(R(0), threads[i].area_h)

\* A step of handle_action that ran navigate_prev or navigate_next
NavigateStep ==
    /\ pc \in {"toolbar", "keyboard"}
    /\ \E a \in ToolbarClicks(has_file) \cup Shortcuts(has_file) :
           /\ a.prev_file \/ a.next_file
           /\ Commit(handle_action(Self, a, Vec2ZERO))

\* The path a load of this step was asked for, as an Option
LoadedPath(e, ths) ==
    IF e.kind = "sync_ok" THEN <<e.doc.path>>
    ELSE IF e.kind = "sync_err" THEN <<e.path>>
    ELSE IF e.kind = "bg_started" THEN <<ths[e.thread].path>>
    ELSE <<>>

\* C19 as stated: every load, those started by prev/next included, leaves a
\* navigator that a directory scan for the loaded path has just rebuilt.
C19_Original ==
    [][LoadedPath(ev', threads') # <<>> =>
           navigator' = scan_directory(navigator, LoadedPath(ev', threads')[1])]_vars

\* C19: a load started through load_file (initial file, open dialog, drop)
\* rebuilds the navigator by a directory scan for the loaded path; a load
\* started by prev/next runs no scan: it keeps the file list of the last scan
\* and only moves the index to the file it loads.
C19_ScanOnLoadFileOnly ==
    [][/\ (LoadedPath(ev', threads') # <<>> /\ ~NavigateStep) =>
              navigator' = scan_directory(navigator, LoadedPath(ev', threads')[1])
       /\ (NavigateStep /\ ev'.kind = "bg_started") =>
              /\ navigator'.files = navigator.files
              /\ navigator'.scanned_for = navigator.scanned_for
              /\ navigator'.files[navigator'.current_index + 1]
                     = threads'[ev'.thread].path]_vars

\* A prev/next load of a file other than the one the list was scanned for
C19_Witness ==
    /\ ev.kind = "bg_started"
    /\ navigator.scanned_for # <<threads[ev.thread].path>>
    /\ navigator.files[navigator.current_index + 1] = threads[ev.thread].path

-----------------------------------------------------------------------------
(* Claims about the application under SpecLive.                            *)

\* At most one load is started per handler, and the initial file one more
MaxThreads == 3 * MaxInputs + 1

PollKinds == {"bg_ok", "bg_err", "bg_disconnected"}

\* C26: a pending load is eventually no longer pending: its result was
\* observed or a newer load took its place.  A poll that finds no result
\* keeps the pending load and asks for another frame; a poll that finds a
\* result (success, error or disconnect) leaves no pending load and drops
\* the receiver; a dropped receiver never comes back and a pending load
\* always has its receiver, so a load is not polled again once observed.
C26_LoadEventuallyObserved ==
    /\ \A i \in 1..MaxThreads : (pending_load = <<i>>) ~> (pending_load # <<i>>)
    /\ [][/\ ev'.kind = "bg_empty" =>
                 /\ pending_load' = <<ev'.thread>>
                 /\ pc = "start"
                 /\ pending_load' = pending_load \/ initial_file # <<>>
                 /\ repaint'
          /\ ev'.kind \in PollKinds =>
                 /\ pc = "start"
                 /\ pending_load' = <<>>
                 /\ ~threads'[ev'.thread].rx_alive
                 /\ threads[ev'.thread].rx_alive
          /\ \A i \in 1..Len(threads) :
                 ~threads[i].rx_alive => ~threads'[i].rx_alive
          /\ pending_load' # <<>> => threads'[pending_load'[1]].rx_alive]_vars

\* A load that was polled while still running has been observed
C26_Witness ==
    /\ ev.kind = "bg_ok"
    /\ pending_load = <<>>
    /\ Len(threads) = 2
    /\ ev.thread = 2
    /\ ~threads[1].rx_alive

Ended == {"done", "panicked"}

\* The controller's own fields, the threads and the event aside
Controller ==
    <<document, viewport, renderer, navigator, error_message, render_dirty,
      last_area_size, zoom_idle_since, pending_rerender, initial_file,
      pending_load, last_pixels_per_point, cap_initial_zoom>>

\* The step in which load thread i ends
WorkerEnds(i) ==
    /\ threads[i].status = "running"
    /\ threads'[i].status \in Ended

\* C27 as stated: every load thread that has started eventually has sent its
\* result.
C27_Original ==
    \A i \in 1..MaxThreads :
        (Len(threads) >= i) ~> (Len(threads) >= i /\ threads[i].status = "done")

\* C27: every load thread that has started eventually ends, either by
\* sending its one result or by a panic that sends nothing.  A thread that
\* ended stays as it ended, so there is at most one send; the result is the
\* loaded file or an error string; it is queued when the receiver lives and
\* dropped silently when the receiver was replaced or dropped; the step in
\* which a thread ends changes that thread's record and nothing of the
\* controller.
C27_WorkerSendsAtMostOnce ==
    /\ \A i \in 1..MaxThreads :
           (Len(threads) >= i) ~> (Len(threads) >= i /\ threads[i].status \in Ended)
    /\ [][\A i \in 1..Len(threads) :
              /\ Len(threads') >= Len(threads)
              /\ threads[i].status \in Ended
                     => threads'[i].status = threads[i].status
              /\ (threads[i].slot = <<>> /\ threads'[i].slot # <<>>)
                     => /\ WorkerEnds(i)
                        /\ threads'[i].status = "done"
                        /\ threads[i].rx_alive
                        /\ \/ threads'[i].slot[1].ok
                           \/ "msg" \in DOMAIN threads'[i].slot[1]
              /\ (WorkerEnds(i) /\ ~threads[i].rx_alive)
                     => threads'[i].slot = <<>>
              /\ (WorkerEnds(i) /\ threads'[i].status = "done"
                                /\ threads[i].rx_alive)
                     => Len(threads'[i].slot) = 1
              /\ (WorkerEnds(i) /\ threads'[i].status = "panicked")
                     => threads'[i].slot = <<>>
              /\ WorkerEnds(i)
                     => /\ UNCHANGED Controller
                        /\ UNCHANGED <<pc, repaint>>
                        /\ \A j \in 1..Len(threads) :
                               j # i => threads'[j] = threads[j]
                        /\ threads'[i].rx_alive = threads[i].rx_alive]_vars

\* A superseded load has ended by a send into its dropped channel while the
\* newer load is still running
C27_Witness ==
    /\ Len(threads) = 2
    /\ threads[1].status = "done"
    /\ ~threads[1].rx_alive
    /\ threads[1].slot = <<>>
    /\ threads[2].status = "running"
    /\ pending_load = <<2>>
    /\ ev = NoEvent

-----------------------------------------------------------------------------
(* Further claims about the application, under Spec.                       *)

\* The central panel of a frame without pointer input, for any display area
RenderPassStep ==
    /\ pc = "canvas"
    /\ \E area \in CanvasAreas : Commit(UpdateCanvas(Self, area, NoPointer))

\* C29: when the fit-mode is ActualSize or Custom, a pass through the central
\* panel without pointer input (with or without a render, with the same or
\* another display area) leaves zoom, pan and fit-mode as they were.
C29_RefitOnlyInFit ==
    [][(RenderPassStep /\ viewport.fit_mode \in {"ActualSize", "Custom"})
          => /\ viewport'.zoom = viewport.zoom
             /\ viewport'.pan = viewport.pan
             /\ viewport'.fit_mode = viewport.fit_mode]_vars

\* A render at actual size has been done, and the display area has changed
\* since the application started
C29_Witness ==
    /\ pc = "start"
    /\ viewport.fit_mode = "ActualSize"
    /\ viewport.zoom = R(1)
    /\ ~render_dirty
    /\ renderer.texture # <<>>
    /\ n_inputs = 2
    /\ last_area_size = <<R(1000), R(700)>>

-----------------------------------------------------------------------------
(* Further claims about the FileNavigator, under SpecNavigator.            *)

\* The index is a position of the list, and 0 on an empty list
ValidIndex(nav) ==
    /\ nav.current_index \in Nat
    /\ Len(nav.files) > 0 => nav.current_index < Len(nav.files)
    /\ Len(nav.files) = 0 => nav.current_index = 0

\* The index is where path is in the list, and 0 when the list lacks it
IndexOf(nav, path) ==
    /\ \A i \in 1..Len(nav.files) :
           (nav.files[i] = path /\ \A j \in 1..(i - 1) : nav.files[j] # path)
               => nav.current_index = i - 1
    /\ (\A i \in 1..Len(nav.files) : nav.files[i] # path)
           => nav.current_index = 0

\* C30 as stated: the index is always valid, and after every scan_directory
\* it is the position of the given path in the list, or 0 when the list
\* lacks it.
C30_Original ==
    /\ ValidIndex(navigator)
    /\ calls[1].op = "scan_directory" => IndexOf(navigator, calls[1].path[1])

\* C30: the index is always valid; after a scan_directory for a path that
\* has a parent directory it is the position of that path in the scanned
\* list, or 0 when the list lacks it; a scan_directory for a path without a
\* parent leaves the navigator as it was.
C30_IndexValid ==
    /\ ValidIndex(navigator)
    /\ calls[1].op = "scan_directory" =>
           IF calls[1].path[1] \in Parentless
           THEN navigator = calls[1].before
           ELSE IndexOf(navigator, calls[1].path[1])

\* A scan of a shorter listing that lacks the file, after next had moved the
\* index to the last of three files
C30_Witness ==
    /\ calls[1].op = "scan_directory"
    /\ calls[1].path = <<"bad.svg">>
    /\ calls[1].before.current_index = 2
    /\ calls[2].op = "next"
    /\ navigator.files = <<"a.svg", "b.svg">>
    /\ navigator.current_index = 0


====
